---- MODULE Spec2Model ----
(***************************************************************************)
(* Contact constraint solving, contact queries and motorized joints of    *)
(* avian (2D build).                                                       *)
(*                                                                         *)
(* Spec, SpecConc and SpecRuns run the contact solver; SpecQuery makes the *)
(* contact queries on a scene of two colliders; SpecJoint steps a joint    *)
(* with a motor; SpecFrame makes the solver calls and the entity remap on  *)
(* one constraint among three bodies.                                      *)
(*                                                                         *)
(* Scalars are modelled by integers: every input is a small integer, on    *)
(* which the f32/f64 sums, products, max and clamp of the solver are       *)
(* exact.  Vectors are pairs <<x, y>>; rotations are unit complex numbers  *)
(* [cos, sin] restricted to multiples of a quarter turn.                   *)
(***************************************************************************)
EXTENDS Integers, Sequences, FiniteSets, TLC

(***************************************************************************)
(* Bounds of the model.                                                    *)
(***************************************************************************)
\* Number of simulation steps the pipeline is run for.
MaxSteps == 2
\* Number of solve iterations per step (the fixed configuration value K).
SolveIterations == 2
\* Number of calls in a repeated run.
MaxCalls == 2

(***************************************************************************)
(* Vector algebra (crate prelude; 2D).                                     *)
(***************************************************************************)
Max(a, b) == IF a >= b THEN a ELSE b
Min(a, b) == IF a <= b THEN a ELSE b
Abs(a) == IF a >= 0 THEN a ELSE -a
Clamp(x, lo, hi) == Max(lo, Min(x, hi))

ZeroVec == <<0, 0>>
VAdd(u, v) == <<u[1] + v[1], u[2] + v[2]>>
VSub(u, v) == <<u[1] - v[1], u[2] - v[2]>>
VScale(s, v) == <<s * v[1], s * v[2]>>
Dot(u, v) == u[1] * v[1] + u[2] * v[2]
\* 2D cross product of two vectors: a scalar.
cross(u, v) == u[1] * v[2] - u[2] * v[1]
\* Rotation applied to a vector (delta_rotation * anchor).
Rotate(rot, v) == <<rot.cos * v[1] - rot.sin * v[2], rot.sin * v[1] + rot.cos * v[2]>>

(***************************************************************************)
(* SolverBody and SolverBodyInertia.                                       *)
(***************************************************************************)
\* SolverBody::velocity_at_point: linear velocity plus angular velocity
\* crossed with the offset.
velocity_at_point(body, r) ==
    VAdd(body.linear_velocity, VScale(body.angular_velocity, <<-r[2], r[1]>>))

effective_inv_mass(inertia) == inertia.inv_mass
effective_inv_angular_inertia(inertia) == inertia.inv_angular_inertia

(***************************************************************************)
(* The impulse application shared by warm_start, solve (both passes) and   *)
(* apply_restitution: body1 subtracts, body2 adds.                         *)
(***************************************************************************)
ApplyImpulseUnitMass(body1, body2, inertia1, inertia2, r1, r2, p) ==
    [b1 |-> [body1 EXCEPT
                !.linear_velocity = VSub(@, p),
                !.angular_velocity = @ - effective_inv_angular_inertia(inertia1) * cross(r1, p)],
     b2 |-> [body2 EXCEPT
                !.linear_velocity = VAdd(@, VScale(effective_inv_mass(inertia2), p)),
                !.angular_velocity = @ + cross(r2, p)]]

ApplyImpulseSameSign(body1, body2, inertia1, inertia2, r1, r2, p) ==
    [b1 |-> [body1 EXCEPT
                !.linear_velocity = VAdd(@, VScale(effective_inv_mass(inertia1), p)),
                !.angular_velocity = @ + effective_inv_angular_inertia(inertia1) * cross(r1, p)],
     b2 |-> [body2 EXCEPT
                !.linear_velocity = VAdd(@, VScale(effective_inv_mass(inertia2), p)),
                !.angular_velocity = @ + effective_inv_angular_inertia(inertia2) * cross(r2, p)]]

ApplyImpulseMovingBody(body1, body2, inertia1, inertia2, r1, r2, p) ==
    [b1 |-> [body1 EXCEPT
                !.linear_velocity = VSub(@, VScale(effective_inv_mass(inertia1), p)),
                !.angular_velocity = @ - effective_inv_angular_inertia(inertia1) * cross(r1, p),
                !.delta_position = VSub(@, VScale(effective_inv_mass(inertia1), p))],
     b2 |-> [body2 EXCEPT
                !.linear_velocity = VAdd(@, VScale(effective_inv_mass(inertia2), p)),
                !.angular_velocity = @ + effective_inv_angular_inertia(inertia2) * cross(r2, p),
                !.delta_position = VAdd(@, VScale(effective_inv_mass(inertia2), p))]]

ApplyImpulse(body1, body2, inertia1, inertia2, r1, r2, p) ==
    [b1 |-> [body1 EXCEPT
                !.linear_velocity = VSub(@, VScale(effective_inv_mass(inertia1), p)),
                !.angular_velocity = @ - effective_inv_angular_inertia(inertia1) * cross(r1, p)],
     b2 |-> [body2 EXCEPT
                !.linear_velocity = VAdd(@, VScale(effective_inv_mass(inertia2), p)),
                !.angular_velocity = @ + effective_inv_angular_inertia(inertia2) * cross(r2, p)]]

(***************************************************************************)
(* ContactNormalPart::solve_impulse and ContactTangentPart::solve_impulse. *)
(* Both return the part with its accumulator updated and the incremental   *)
(* impulse.                                                                *)
(***************************************************************************)
normal_solve_impulse(part, separation, relative_velocity, normal, use_bias, max_overlap_solve_speed, delta_secs) ==
    LET bias == IF separation > 0 THEN separation \div delta_secs
                ELSE IF use_bias
                     THEN Max(part.softness_bias * separation, -max_overlap_solve_speed)
                     ELSE 0
        normal_speed == Dot(relative_velocity, normal)
        impulse == -part.effective_mass * (normal_speed + bias)
        new_impulse == Max(part.impulse + impulse, 0)
    IN [part |-> [part EXCEPT !.impulse = new_impulse,
                              !.total_impulse = @ + new_impulse],
        impulse |-> new_impulse - part.impulse]

tangent_solve_impulse(part, tangent_dirs, relative_velocity, tangent_speed, friction, normal_impulse) ==
    LET tangent == tangent_dirs[1]
        impulse == -part.effective_mass * (Dot(relative_velocity, tangent) - tangent_speed)
        max_friction == friction * normal_impulse
        new_impulse == Clamp(part.impulse + impulse, -max_friction, max_friction)
    IN [part |-> [part EXCEPT !.impulse = new_impulse],
        impulse |-> VScale(new_impulse - part.impulse, tangent)]

(***************************************************************************)
(* ContactConstraint.                                                      *)
(***************************************************************************)
\* ContactConstraint::tangent_directions (2D): the normal turned clockwise.
tangent_directions(c, velocity1, velocity2) == << <<c.normal[2], -c.normal[1]>> >>

RECURSIVE Orders(_)
\* All orders in which the elements of a set of indices can be visited.
Orders(S) ==
    IF S = {} THEN { <<>> }
    ELSE UNION { { <<i>> \o o : o \in Orders(S \ {i}) } : i \in S }

points_iter_unordered(c) == Orders(DOMAIN c.points)

\* The order in which `self.points.iter()` / `iter_mut()` yield the points
\* of the Vec: the stored index order, and no other.
points_iter(c) == { [i \in 1..Len(c.points) |-> i] }

(***************************************************************************)
(* The loops below thread a record                                         *)
(*   [body1, body2, points, trace]                                         *)
(* through the points of a constraint; trace is the list of the points     *)
(* visited, in visiting order: the pass, the point, the impulse applied to  *)
(* the bodies and one detail of the visit (warm start: the coefficient;    *)
(* normal: the current separation; friction: the normal impulse handed to  *)
(* the clamp; restitution: the increment before clamping).                 *)
(***************************************************************************)
Thread(body1, body2, points) ==
    [body1 |-> body1, body2 |-> body2, points |-> points, trace |-> <<>>]

\* One iteration of the loop of warm_start.
warm_start_point_unscaled_friction(st, i, inertia1, inertia2, normal, tangent_dirs, warm_start_coefficient) ==
    LET point == st.points[i]
        r1 == point.anchor1
        r2 == point.anchor2
        tangent_impulse == IF point.tangent_part = <<>> THEN 0
                           ELSE point.tangent_part[1].impulse
        p == VAdd(VScale(warm_start_coefficient * point.normal_part.impulse, normal),
                  VScale(tangent_impulse, tangent_dirs[1]))
        ap == ApplyImpulse(st.body1, st.body2, inertia1, inertia2, r1, r2, p)
    IN [st EXCEPT !.body1 = ap.b1, !.body2 = ap.b2,
                  !.trace = Append(@, [pass |-> "warm", point |-> i, impulse |-> p,
                                       detail |-> warm_start_coefficient])]

warm_start_point(st, i, inertia1, inertia2, normal, tangent_dirs, warm_start_coefficient) ==
    LET point == st.points[i]
        r1 == point.anchor1
        r2 == point.anchor2
        tangent_impulse == IF point.tangent_part = <<>> THEN 0
                           ELSE point.tangent_part[1].impulse
        p == VScale(warm_start_coefficient,
                    VAdd(VScale(point.normal_part.impulse, normal),
                         VScale(tangent_impulse, tangent_dirs[1])))
        ap == ApplyImpulse(st.body1, st.body2, inertia1, inertia2, r1, r2, p)
    IN [st EXCEPT !.body1 = ap.b1, !.body2 = ap.b2,
                  !.trace = Append(@, [pass |-> "warm", point |-> i, impulse |-> p,
                                       detail |-> warm_start_coefficient])]

RECURSIVE warm_start_loop(_, _, _, _, _, _, _, _)
warm_start_loop(st, ord, k, inertia1, inertia2, normal, tangent_dirs, warm_start_coefficient) ==
    IF k > Len(ord) THEN st
    ELSE warm_start_loop(
            warm_start_point(st, ord[k], inertia1, inertia2, normal, tangent_dirs,
                             warm_start_coefficient),
            ord, k + 1, inertia1, inertia2, normal, tangent_dirs, warm_start_coefficient)

\* ContactConstraint::warm_start (&self: the constraint is not written).
warm_start(c, body1, body2, inertia1, inertia2, normal, tangent_dirs, warm_start_coefficient, ord) ==
    warm_start_loop(Thread(body1, body2, c.points), ord, 1, inertia1, inertia2,
                    normal, tangent_dirs, warm_start_coefficient)

\* One iteration of the normal-impulse loop of solve.
solve_normal_point(st, c, i, inertia1, inertia2, delta_translation, delta_secs, use_bias, max_overlap_solve_speed) ==
    LET point == st.points[i]
        rr1 == Rotate(st.body1.delta_rotation, point.anchor1)
        rr2 == Rotate(st.body2.delta_rotation, point.anchor2)
        delta_separation == VAdd(delta_translation, VSub(rr2, rr1))
        separation == Dot(delta_separation, c.normal) + point.initial_separation
        r1 == point.anchor1
        r2 == point.anchor2
        relative_velocity == VSub(velocity_at_point(st.body2, r2),
                                  velocity_at_point(st.body1, r1))
        res == normal_solve_impulse(point.normal_part, separation, relative_velocity,
                                    c.normal, use_bias, max_overlap_solve_speed, delta_secs)
        impulse == VScale(res.impulse, c.normal)
        ap == ApplyImpulse(st.body1, st.body2, inertia1, inertia2, r1, r2, impulse)
    IN [st EXCEPT !.body1 = ap.b1, !.body2 = ap.b2,
                  !.points[i].normal_part = res.part,
                  !.trace = Append(@, [pass |-> "normal", point |-> i, impulse |-> impulse,
                                       detail |-> separation])]

RECURSIVE solve_normal_loop(_, _, _, _, _, _, _, _, _, _)
solve_normal_loop(st, c, ord, k, inertia1, inertia2, delta_translation, delta_secs, use_bias, max_overlap_solve_speed) ==
    IF k > Len(ord) THEN st
    ELSE solve_normal_loop(
            solve_normal_point(st, c, ord[k], inertia1, inertia2, delta_translation,
                               delta_secs, use_bias, max_overlap_solve_speed),
            c, ord, k + 1, inertia1, inertia2, delta_translation, delta_secs,
            use_bias, max_overlap_solve_speed)

friction_normal_impulse_total(st, c, i) == st.points[i].normal_part.total_impulse

friction_normal_impulse_stale(st, c, i) == c.points[i].normal_part.impulse

\* The normal impulse handed to the friction clamp of a point: the point's
\* accumulator as it stands when the friction loop reaches the point.
friction_normal_impulse(st, c, i) == st.points[i].normal_part.impulse

\* The body of the friction loop of solve for a point with a tangent part.
solve_friction_part(st, c, i, inertia1, inertia2, tangent_dirs) ==
    LET point == st.points[i]
        r1 == point.anchor1
        r2 == point.anchor2
        relative_velocity == VSub(velocity_at_point(st.body2, r2),
                                  velocity_at_point(st.body1, r1))
        normal_impulse == friction_normal_impulse(st, c, i)
        res == tangent_solve_impulse(point.tangent_part[1], tangent_dirs,
                                     relative_velocity, c.tangent_speed, c.friction,
                                     normal_impulse)
        ap == ApplyImpulse(st.body1, st.body2, inertia1, inertia2, r1, r2, res.impulse)
    IN [st EXCEPT !.body1 = ap.b1, !.body2 = ap.b2,
                  !.points[i].tangent_part = <<res.part>>,
                  !.trace = Append(@, [pass |-> "friction", point |-> i,
                                       impulse |-> res.impulse,
                                       detail |-> normal_impulse])]

solve_friction_point_skip_idle(st, c, i, inertia1, inertia2, tangent_dirs) ==
    IF st.points[i].tangent_part = <<>> \/ st.points[i].normal_part.impulse = 0 THEN st
    ELSE solve_friction_part(st, c, i, inertia1, inertia2, tangent_dirs)

\* One iteration of the friction loop of solve: a point without tangent
\* part is skipped.
solve_friction_point(st, c, i, inertia1, inertia2, tangent_dirs) ==
    IF st.points[i].tangent_part = <<>> THEN st
    ELSE solve_friction_part(st, c, i, inertia1, inertia2, tangent_dirs)

RECURSIVE solve_friction_loop(_, _, _, _, _, _, _)
solve_friction_loop(st, c, ord, k, inertia1, inertia2, tangent_dirs) ==
    IF k > Len(ord) THEN st
    ELSE solve_friction_loop(
            solve_friction_point(st, c, ord[k], inertia1, inertia2, tangent_dirs),
            c, ord, k + 1, inertia1, inertia2, tangent_dirs)

\* ContactConstraint::solve.
solve(c, body1, body2, inertia1, inertia2, delta_secs, use_bias, max_overlap_solve_speed, ord) ==
    LET delta_translation == VSub(body2.delta_position, body1.delta_position)
        n == solve_normal_loop(Thread(body1, body2, c.points), c, ord, 1, inertia1,
                               inertia2, delta_translation, delta_secs, use_bias,
                               max_overlap_solve_speed)
        tangent_dirs == tangent_directions(c, n.body1.linear_velocity,
                                           n.body2.linear_velocity)
    IN solve_friction_loop(n, c, ord, 1, inertia1, inertia2, tangent_dirs)

\* The condition under which apply_restitution skips a point.
restitution_skipped(point, threshold) ==
    point.normal_speed > -threshold \/ point.normal_part.total_impulse = 0

restitution_clamp_unclamped(accumulated, impulse) == accumulated + impulse

\* The clamp of the accumulated normal impulse in apply_restitution.
restitution_clamp(accumulated, impulse) == Max(accumulated + impulse, 0)

\* One iteration of the loop of apply_restitution.
apply_restitution_point(st, c, i, inertia1, inertia2, threshold) ==
    LET point == st.points[i]
    IN IF restitution_skipped(point, threshold) THEN st
       ELSE
        LET r1 == point.anchor1
            r2 == point.anchor2
            relative_velocity == VSub(velocity_at_point(st.body2, r2),
                                      velocity_at_point(st.body1, r1))
            normal_speed == Dot(relative_velocity, c.normal)
            impulse0 == -point.normal_part.effective_mass
                          * (normal_speed + c.restitution * point.normal_speed)
            new_impulse == restitution_clamp(point.normal_part.impulse, impulse0)
            impulse1 == new_impulse - point.normal_part.impulse
            impulse == VScale(impulse1, c.normal)
            ap == ApplyImpulse(st.body1, st.body2, inertia1, inertia2, r1, r2, impulse)
        IN [st EXCEPT !.body1 = ap.b1, !.body2 = ap.b2,
                      !.points[i].normal_part.impulse = new_impulse,
                      !.points[i].normal_part.total_impulse = @ + impulse1,
                      !.trace = Append(@, [pass |-> "restitution", point |-> i,
                                           impulse |-> impulse, detail |-> impulse0])]

RECURSIVE apply_restitution_loop(_, _, _, _, _, _, _)
apply_restitution_loop(st, c, ord, k, inertia1, inertia2, threshold) ==
    IF k > Len(ord) THEN st
    ELSE apply_restitution_loop(
            apply_restitution_point(st, c, ord[k], inertia1, inertia2, threshold),
            c, ord, k + 1, inertia1, inertia2, threshold)

\* ContactConstraint::apply_restitution.
apply_restitution(c, body1, body2, inertia1, inertia2, threshold, ord) ==
    apply_restitution_loop(Thread(body1, body2, c.points), c, ord, 1, inertia1,
                           inertia2, threshold)

(***************************************************************************)
(* State.                                                                  *)
(***************************************************************************)
VARIABLES
    bodies,       \* SolverBody of each body entity
    inertias,     \* SolverBodyInertia of each body entity
    manifolds,    \* the contact manifolds handed to the constraint builder
    config,       \* the solver configuration of the run
    constraints,  \* the ContactConstraints built from the manifolds
    phase,        \* the next pass of the step
    iter,         \* solve iterations completed in this step
    step,         \* steps completed
    passes,       \* the passes run so far in this step, in order
    last,         \* the last pass: its name and the trace of its point loop
    tasks,        \* concurrent solving: the solve call in progress per constraint
    start,        \* concurrent solving: the bodies and constraints before the calls
    shadow,       \* repeated run: the bodies and constraints of the second run
    query,        \* contact queries: the output buffer and the last query made
    joint         \* motorized joint: its bodies, motor, limits and last solve

vars == <<bodies, inertias, manifolds, config, constraints, phase, iter, step, passes, last, tasks, start, shadow, query, joint>>

(***************************************************************************)
(* Inputs.                                                                 *)
(***************************************************************************)
Identity == [cos |-> 1, sin |-> 0]
QuarterTurn == [cos |-> 0, sin |-> 1]

Body(lin, ang, dpos, drot) ==
    [linear_velocity |-> lin, angular_velocity |-> ang,
     delta_position |-> dpos, delta_rotation |-> drot]

Inertia(im, ii) == [inv_mass |-> im, inv_angular_inertia |-> ii]

\* Mass properties of the pair: static/dynamic, two finite masses without and
\* with rotation, and a dynamic body against an infinite-mass second body.
InertiaPairs ==
    { <<Inertia(0, 0), Inertia(1, 0)>>, <<Inertia(1, 0), Inertia(1, 0)>>,
      <<Inertia(1, 1), Inertia(2, 1)>>, <<Inertia(1, 1), Inertia(0, 0)>> }

Body1Set == { Body(<<0, 0>>, 0, <<0, 0>>, Identity),
              Body(<<1, 1>>, 0, <<1, 0>>, QuarterTurn) }

Body2Set ==
    { Body(lin, d[1], d[2], d[3]) :
        lin \in { <<0, 0>>, <<1, -2>>, <<-2, -1>> },
        d \in { <<0, ZeroVec, Identity>>, <<1, <<0, -1>>, QuarterTurn>> } }

\* A manifold point as the narrow phase and the previous step hand it to the
\* constraint builder: anchors, separation, the impulses kept for warm
\* starting, and the effective masses and softness of its two parts.
MPoint(a1, a2, sep, ni, ti) ==
    [anchor1 |-> a1, anchor2 |-> a2, initial_separation |-> sep,
     normal_impulse |-> ni, tangent_impulse |-> ti,
     effective_mass |-> 1, tangent_effective_mass |-> 1, softness_bias |-> 1]

MPoints ==
    << MPoint(<<0, 0>>, <<0, 0>>, -1, 0, 0),
       MPoint(<<1, 0>>, <<-1, 0>>, 0, 2, -1),
       MPoint(<<0, 1>>, <<1, -1>>, 2, 0, 0),
       MPoint(<<-1, 0>>, <<0, 0>>, -2, 1, 3) >>

\* Manifolds hold one or two points (2D).
MPointSeqs ==
    { <<MPoints[i]>> : i \in DOMAIN MPoints }
      \cup { <<MPoints[i], MPoints[(i % Len(MPoints)) + 1]>> : i \in DOMAIN MPoints }

\* friction and the conveyor-belt tangent_speed.
FrictionSet == { <<0, 0>>, <<1, 0>>, <<2, 1>> }
RestitutionSet == { 0, 1 }
NormalSet == { <<0, 1>>, <<1, 0>> }

\* Solver configuration: fixed for a run.
ConfigSet ==
    { [use_bias |-> ub, warm_start_coefficient |-> w, delta_secs |-> 1,
       max_overlap_solve_speed |-> 1, restitution_threshold |-> 1] :
        ub \in BOOLEAN, w \in { 0, 1 } }

\* A manifold between two bodies; f is a pair of FrictionSet.
Manifold(b1, b2, n, f, e, ps) ==
    [body1 |-> b1, body2 |-> b2, normal |-> n, friction |-> f[1],
     tangent_speed |-> f[2], restitution |-> e, points |-> ps,
     contact_id |-> 0, manifold_index |-> 0]

None == <<>>
Some(x) == <<x>>
NoPass == [op |-> "none", trace |-> <<>>]

\* No contact query has been made; no joint is simulated.
NoQuery == [op |-> "none"]
NoJoint == [op |-> "none"]

(***************************************************************************)
(* Build: the constraint of the manifold, from the manifold and the        *)
(* current solver bodies.  prev is the constraint of the previous step     *)
(* (its impulses are carried over) or None on the first step.              *)
(***************************************************************************)
\* The tangent part of a built point: absent when the friction is zero.
build_tangent_part(friction, impulse, effective_mass) ==
    IF friction = 0 THEN None
    ELSE Some([impulse |-> impulse, effective_mass |-> effective_mass])

build_point(m, i, prev, body1, body2) ==
    LET mp == m.points[i]
        ni == IF prev = None THEN mp.normal_impulse
              ELSE prev[1].points[i].normal_part.impulse
        ti == IF prev = None THEN mp.tangent_impulse
              ELSE IF prev[1].points[i].tangent_part = None THEN 0
              ELSE prev[1].points[i].tangent_part[1].impulse
        relative_velocity == VSub(velocity_at_point(body2, mp.anchor2),
                                  velocity_at_point(body1, mp.anchor1))
    IN [normal_part |-> [impulse |-> ni, total_impulse |-> 0,
                         effective_mass |-> mp.effective_mass,
                         softness_bias |-> mp.softness_bias],
        tangent_part |-> build_tangent_part(m.friction, ti, mp.tangent_effective_mass),
        anchor1 |-> mp.anchor1,
        anchor2 |-> mp.anchor2,
        normal_speed |-> Dot(relative_velocity, m.normal),
        initial_separation |-> mp.initial_separation]

build(m, prev, body1, body2) ==
    [body1 |-> m.body1, body2 |-> m.body2, relative_dominance |-> 0,
     friction |-> m.friction, restitution |-> m.restitution,
     tangent_speed |-> m.tangent_speed, normal |-> m.normal,
     points |-> [i \in 1..Len(m.points) |-> build_point(m, i, prev, body1, body2)],
     contact_id |-> m.contact_id, manifold_index |-> m.manifold_index]

(***************************************************************************)
(* The step: Build, WarmStart, Solve x SolveIterations, Restitution.       *)
(***************************************************************************)
after_solve_early(it) == "Restitution"

\* The pass that follows a solve iteration, iter iterations being done.
after_solve(it) == IF it < SolveIterations THEN "Solve" ELSE "Restitution"

\* The pass that follows the restitution pass, st steps being done.
after_restitution(st) == IF st < MaxSteps THEN "Build" ELSE "Done"

Init ==
    /\ \E ip \in InertiaPairs, b1 \in Body1Set, b2 \in Body2Set :
          /\ bodies = <<b1, b2>>
          /\ inertias = <<ip[1], ip[2]>>
    /\ \E n \in NormalSet, f \in FrictionSet, e \in RestitutionSet, ps \in MPointSeqs :
          manifolds = <<Manifold(1, 2, n, f, e, ps)>>
    /\ config \in ConfigSet
    /\ constraints = <<>>
    /\ phase = "Build"
    /\ iter = 0
    /\ step = 0
    /\ passes = <<>>
    /\ last = NoPass
    /\ tasks = <<>>
    /\ start = <<>>
    /\ shadow = <<>>
    /\ query = NoQuery
    /\ joint = NoJoint

BuildPass ==
    /\ phase = "Build"
    /\ constraints' = <<build(manifolds[1], constraints, bodies[manifolds[1].body1],
                              bodies[manifolds[1].body2])>>
    /\ phase' = "WarmStart"
    /\ iter' = 0
    /\ passes' = <<"Build">>
    /\ last' = [op |-> "build", trace |-> <<>>]
    /\ UNCHANGED <<bodies, inertias, manifolds, config, step, tasks, start, shadow, query, joint>>

\* The bodies after a pass over constraint c that left them as r.body1, r.body2.
WriteBack(c, r) == [bodies EXCEPT ![c.body1] = r.body1, ![c.body2] = r.body2]

WarmStartPass ==
    /\ phase = "WarmStart"
    /\ LET c == constraints[1] IN
       \E ord \in points_iter(c) :
          LET r == warm_start(c, bodies[c.body1], bodies[c.body2],
                              inertias[c.body1], inertias[c.body2], c.normal,
                              tangent_directions(c, bodies[c.body1].linear_velocity,
                                                 bodies[c.body2].linear_velocity),
                              config.warm_start_coefficient, ord)
          IN /\ bodies' = WriteBack(c, r)
             /\ last' = [op |-> "warm_start", trace |-> r.trace]
    /\ phase' = "Solve"
    /\ passes' = Append(passes, "WarmStart")
    /\ UNCHANGED <<inertias, manifolds, config, constraints, iter, step, tasks, start, shadow, query, joint>>

SolvePass ==
    /\ phase = "Solve"
    /\ LET c == constraints[1] IN
       \E ord \in points_iter(c) :
          LET r == solve(c, bodies[c.body1], bodies[c.body2],
                         inertias[c.body1], inertias[c.body2],
                         config.delta_secs, config.use_bias,
                         config.max_overlap_solve_speed, ord)
          IN /\ bodies' = WriteBack(c, r)
             /\ constraints' = [constraints EXCEPT ![1].points = r.points]
             /\ last' = [op |-> "solve", trace |-> r.trace]
    /\ iter' = iter + 1
    /\ phase' = after_solve(iter + 1)
    /\ passes' = Append(passes, "Solve")
    /\ UNCHANGED <<inertias, manifolds, config, step, tasks, start, shadow, query, joint>>

RestitutionPass ==
    /\ phase = "Restitution"
    /\ LET c == constraints[1] IN
       \E ord \in points_iter(c) :
          LET r == apply_restitution(c, bodies[c.body1], bodies[c.body2],
                                     inertias[c.body1], inertias[c.body2],
                                     config.restitution_threshold, ord)
          IN /\ bodies' = WriteBack(c, r)
             /\ constraints' = [constraints EXCEPT ![1].points = r.points]
             /\ last' = [op |-> "apply_restitution", trace |-> r.trace]
    /\ step' = step + 1
    /\ phase' = after_restitution(step + 1)
    /\ passes' = Append(passes, "Restitution")
    /\ UNCHANGED <<inertias, manifolds, config, iter, tasks, start, shadow, query, joint>>

Next == BuildPass \/ WarmStartPass \/ SolvePass \/ RestitutionPass

Spec == Init /\ [][Next]_vars

(***************************************************************************)
(* Concurrent solving.  A solve call runs for each constraint; a call is   *)
(* a sequence of steps, one per iteration of its two loops, and the steps  *)
(* of different calls interleave.  solve borrows both of its bodies        *)
(* mutably for the length of the call.                                     *)
(***************************************************************************)
IdleTask ==
    [pc |-> "idle", k |-> 0, ord |-> <<>>, delta_translation |-> ZeroVec,
     tangent_dirs |-> <<>>, trace |-> <<>>, overlapped |-> FALSE]

Running(ci) == tasks[ci].pc \in {"normal", "friction"}

BodiesOf(ci) == {constraints[ci].body1, constraints[ci].body2}

borrow_unchecked(ci) == TRUE

\* `body1: &mut SolverBody, body2: &mut SolverBody`: the call for constraint
\* ci can hold its two bodies only while no running call holds one of them.
borrow_free(ci) ==
    \A cj \in DOMAIN constraints \ {ci} : Running(cj) => BodiesOf(cj) \cap BodiesOf(ci) = {}

\* The loop state of the call for constraint ci: the bodies and the points
\* it works on in place.
InPlace(ci) ==
    [body1 |-> bodies[constraints[ci].body1], body2 |-> bodies[constraints[ci].body2],
     points |-> constraints[ci].points, trace |-> tasks[ci].trace]

\* The entry of solve: the borrows are taken and delta_translation is read.
ConcBegin(ci) ==
    /\ tasks[ci].pc = "idle"
    /\ borrow_free(ci)
    /\ \E ord \in points_iter(constraints[ci]) :
          tasks' = [cj \in DOMAIN tasks |->
                      IF cj = ci
                      THEN [tasks[ci] EXCEPT
                              !.pc = "normal", !.k = 1, !.ord = ord,
                              !.delta_translation =
                                  VSub(bodies[constraints[ci].body2].delta_position,
                                       bodies[constraints[ci].body1].delta_position),
                              !.overlapped = \E ck \in DOMAIN tasks : Running(ck)]
                      ELSE [tasks[cj] EXCEPT !.overlapped = @ \/ Running(cj)]]
    /\ UNCHANGED <<bodies, inertias, manifolds, config, constraints, phase, iter, step, passes, last, start, shadow, query, joint>>

\* One iteration of the normal loop; after the last one the tangent
\* directions are computed.
ConcNormal(ci) ==
    /\ tasks[ci].pc = "normal"
    /\ LET c == constraints[ci]
           t == tasks[ci]
           r == solve_normal_point(InPlace(ci), c, t.ord[t.k], inertias[c.body1],
                                   inertias[c.body2], t.delta_translation,
                                   config.delta_secs, config.use_bias,
                                   config.max_overlap_solve_speed)
           more == t.k < Len(t.ord)
       IN /\ bodies' = WriteBack(c, r)
          /\ constraints' = [constraints EXCEPT ![ci].points = r.points]
          /\ tasks' = [tasks EXCEPT
                         ![ci].trace = r.trace,
                         ![ci].k = IF more THEN t.k + 1 ELSE 1,
                         ![ci].pc = IF more THEN "normal" ELSE "friction",
                         ![ci].tangent_dirs =
                             IF more THEN <<>>
                             ELSE tangent_directions(c, r.body1.linear_velocity,
                                                     r.body2.linear_velocity)]
    /\ UNCHANGED <<inertias, manifolds, config, phase, iter, step, passes, last, start, shadow, query, joint>>

\* One iteration of the friction loop; after the last one the call returns
\* and its borrows end.
ConcFriction(ci) ==
    /\ tasks[ci].pc = "friction"
    /\ LET c == constraints[ci]
           t == tasks[ci]
           r == solve_friction_point(InPlace(ci), c, t.ord[t.k], inertias[c.body1],
                                     inertias[c.body2], t.tangent_dirs)
           more == t.k < Len(t.ord)
       IN /\ bodies' = WriteBack(c, r)
          /\ constraints' = [constraints EXCEPT ![ci].points = r.points]
          /\ tasks' = [tasks EXCEPT
                         ![ci].trace = r.trace,
                         ![ci].k = IF more THEN t.k + 1 ELSE 0,
                         ![ci].pc = IF more THEN "friction" ELSE "done"]
    /\ UNCHANGED <<inertias, manifolds, config, phase, iter, step, passes, last, start, shadow, query, joint>>

\* Bodies of the concurrent runs: constraint 1 joins bodies 1 and 2,
\* constraint 2 joins the pair given by the layout.
ConcLayouts == { <<3, 4>>, <<2, 3>>, <<3, 2>> }

ConcBodySet ==
    { Body(lin, 1, ZeroVec, Identity) : lin \in { <<1, -2>>, <<-2, -1>> } }

ConcPointSeqs == { <<MPoints[1]>>, <<MPoints[2], MPoints[3]>>, <<MPoints[4], MPoints[2]>> }

InitConc ==
    /\ \E b2 \in ConcBodySet, b3 \in ConcBodySet :
          bodies = <<Body(ZeroVec, 0, ZeroVec, Identity), b2, b3,
                     Body(<<0, 1>>, 0, <<0, -1>>, QuarterTurn)>>
    /\ inertias = <<Inertia(1, 0), Inertia(1, 1), Inertia(2, 1), Inertia(0, 0)>>
    /\ \E lay \in ConcLayouts, n \in NormalSet, ps1 \in ConcPointSeqs, ps2 \in ConcPointSeqs :
          manifolds = <<Manifold(1, 2, n, <<1, 0>>, 0, ps1),
                        Manifold(lay[1], lay[2], <<0, 1>>, <<2, 1>>, 0, ps2)>>
    /\ config \in { cfg \in ConfigSet : cfg.warm_start_coefficient = 1 }
    /\ constraints = [ci \in DOMAIN manifolds |->
                        build(manifolds[ci], None, bodies[manifolds[ci].body1],
                              bodies[manifolds[ci].body2])]
    /\ phase = "Solve"
    /\ iter = 0
    /\ step = 0
    /\ passes = <<>>
    /\ last = NoPass
    /\ tasks = [ci \in DOMAIN manifolds |-> IdleTask]
    /\ start = [bodies |-> bodies, constraints |-> constraints]
    /\ shadow = <<>>
    /\ query = NoQuery
    /\ joint = NoJoint

NextConc ==
    \E ci \in DOMAIN tasks : ConcBegin(ci) \/ ConcNormal(ci) \/ ConcFriction(ci)

SpecConc == InitConc /\ [][NextConc]_vars

(***************************************************************************)
(* Repeated run.  The same sequence of warm_start, solve and               *)
(* apply_restitution calls, with the same arguments, is made on two        *)
(* copies of the same bodies and the same constraint; each run iterates    *)
(* the points as the Vec yields them.                                      *)
(***************************************************************************)
\* The call op, with argument arg, on constraint 1 and the bodies of state
\* s, the points yielded in order ord.
Call(op, arg, s, ord) ==
    LET c == s.constraints[1]
        body1 == s.bodies[c.body1]
        body2 == s.bodies[c.body2]
        inertia1 == inertias[c.body1]
        inertia2 == inertias[c.body2]
    IN CASE op = "warm_start" ->
              warm_start(c, body1, body2, inertia1, inertia2, c.normal,
                         tangent_directions(c, body1.linear_velocity, body2.linear_velocity),
                         arg, ord)
         [] op = "solve" ->
              solve(c, body1, body2, inertia1, inertia2, config.delta_secs, arg,
                    config.max_overlap_solve_speed, ord)
         [] op = "apply_restitution" ->
              apply_restitution(c, body1, body2, inertia1, inertia2, arg, ord)

\* The bodies and constraints of state s after call op on constraint 1 left
\* r; warm_start takes &self and writes no point.
AfterCall(op, s, r) ==
    LET c == s.constraints[1]
    IN [bodies |-> [s.bodies EXCEPT ![c.body1] = r.body1, ![c.body2] = r.body2],
        constraints |-> IF op = "warm_start" THEN s.constraints
                        ELSE [s.constraints EXCEPT ![1].points = r.points]]

\* Both runs make the call op with argument arg.
BothRuns(op, arg) ==
    /\ step < MaxCalls
    /\ LET a == [bodies |-> bodies, constraints |-> constraints] IN
       \E ordA \in points_iter(constraints[1]), ordB \in points_iter(shadow.constraints[1]) :
          LET ra == Call(op, arg, a, ordA)
              rb == Call(op, arg, shadow, ordB)
          IN /\ bodies' = AfterCall(op, a, ra).bodies
             /\ constraints' = AfterCall(op, a, ra).constraints
             /\ shadow' = AfterCall(op, shadow, rb)
             /\ last' = [op |-> op, trace |-> ra.trace]
    /\ step' = step + 1
    /\ passes' = Append(passes, op)
    /\ UNCHANGED <<inertias, manifolds, config, phase, iter, tasks, start, query, joint>>

RunWarmStart == \E warm_start_coefficient \in { 0, 1 } : BothRuns("warm_start", warm_start_coefficient)

RunSolve == \E use_bias \in BOOLEAN : BothRuns("solve", use_bias)

RunRestitution == BothRuns("apply_restitution", config.restitution_threshold)

RunPointSeqs == { <<MPoints[i], MPoints[(i % Len(MPoints)) + 1]>> : i \in DOMAIN MPoints }

InitRuns ==
    /\ \E ip \in InertiaPairs, b2 \in Body2Set :
          /\ bodies = <<Body(<<1, 1>>, 0, <<1, 0>>, QuarterTurn), b2>>
          /\ inertias = <<ip[1], ip[2]>>
    /\ \E f \in { <<0, 0>>, <<2, 1>> }, ps \in RunPointSeqs :
          manifolds = <<Manifold(1, 2, <<0, 1>>, f, 1, ps)>>
    /\ config \in { cfg \in ConfigSet : cfg.use_bias /\ cfg.warm_start_coefficient = 1 }
    /\ constraints = <<build(manifolds[1], None, bodies[1], bodies[2])>>
    /\ phase = "Runs"
    /\ iter = 0
    /\ step = 0
    /\ passes = <<>>
    /\ last = NoPass
    /\ tasks = <<>>
    /\ start = <<>>
    /\ shadow = [bodies |-> bodies, constraints |-> constraints]
    /\ query = NoQuery
    /\ joint = NoJoint

NextRuns == RunWarmStart \/ RunSolve \/ RunRestitution

SpecRuns == InitRuns /\ [][NextRuns]_vars

(***************************************************************************)
(* Properties of the contact passes.                                       *)
(***************************************************************************)
Points == IF constraints = <<>> THEN <<>> ELSE constraints[1].points
HasTangent(point) == point.tangent_part # None
TangentImpulse(point) == point.tangent_part[1].impulse
InCone(friction, point) ==
    Abs(TangentImpulse(point)) <= friction * point.normal_part.impulse

\* C1 (as claimed): after solve iterations followed by apply_restitution the
\* accumulated friction impulse of every point with a tangent part is at
\* most friction times the point's current accumulated normal impulse.
C1_FrictionConeAfterRestitution ==
    last.op = "apply_restitution" =>
        \A i \in DOMAIN Points :
            HasTangent(Points[i]) => InCone(constraints[1].friction, Points[i])

\* C1 (amended): after every call of solve the accumulated friction impulse
\* of every point with a tangent part is at most friction times the normal
\* impulse the point has accumulated at the end of that call.
C1_FrictionConeAfterSolve ==
    last.op = "solve" =>
        \A i \in DOMAIN Points :
            HasTangent(Points[i]) => InCone(constraints[1].friction, Points[i])

\* A solve has clamped a friction impulse onto the boundary of a non-trivial
\* cone, and moved the bodies with it.
C1_Witness ==
    /\ last.op = "solve"
    /\ \E k \in DOMAIN last.trace :
          LET e == last.trace[k] IN
          /\ e.pass = "friction"
          /\ e.impulse # ZeroVec
          /\ Points[e.point].normal_part.impulse > 0
          /\ Abs(TangentImpulse(Points[e.point]))
                = constraints[1].friction * Points[e.point].normal_part.impulse

\* The condition of the claim for restitution to act on a point: the
\* pre-solve normal speed exceeds the threshold in magnitude and the point
\* carried a non-zero accumulated normal impulse.
RestitutionDue(point, threshold) ==
    Abs(point.normal_speed) > threshold /\ point.normal_part.total_impulse # 0

\* Impulse p applied at point leaves the velocities of both bodies as they are.
NoVelocityChange(point, p) ==
    LET ap == ApplyImpulse(bodies[1], bodies[2], inertias[1], inertias[2],
                           point.anchor1, point.anchor2, p)
    IN ap.b1 = bodies[1] /\ ap.b2 = bodies[2]

\* A restitution pass treats every point that is not due as C2 says.
C2_RestitutionOnlyWhenDue_Step ==
    phase = "Restitution" =>
        \A i \in DOMAIN Points :
            ~RestitutionDue(Points[i], config.restitution_threshold) =>
                /\ Points'[i] = Points[i]
                /\ \A k \in DOMAIN last'.trace :
                      last'.trace[k].point = i =>
                          NoVelocityChange(Points[i], last'.trace[k].impulse)

\* C2: apply_restitution acts on a point only when its pre-solve normal
\* speed exceeds the threshold in magnitude and its total_impulse is not
\* zero; for every other point the pass changes neither the velocities of
\* the bodies nor the impulse accumulators of the point.
C2_RestitutionOnlyWhenDue == [][C2_RestitutionOnlyWhenDue_Step]_vars

\* C3: the accumulated normal impulse of every point is non-negative after
\* every solve iteration and after apply_restitution.
C3_NormalImpulseNonNegative ==
    last.op \in {"solve", "apply_restitution"} =>
        \A i \in DOMAIN Points : Points[i].normal_part.impulse >= 0

\* apply_restitution computed a negative increment for a point and the
\* clamp stopped the accumulator of the point at 0.
C3_Witness ==
    /\ last.op = "apply_restitution"
    /\ \E k \in DOMAIN last.trace :
          LET e == last.trace[k] IN
          /\ e.detail < 0
          /\ e.impulse # VScale(e.detail, constraints[1].normal)
          /\ Points[e.point].normal_part.impulse = 0

RECURSIVE SumLinear(_)
\* The sum of the impulses of a trace.
SumLinear(trace) ==
    IF trace = <<>> THEN ZeroVec
    ELSE VAdd(Head(trace).impulse, SumLinear(Tail(trace)))

RECURSIVE SumAngular(_, _, _)
\* The sum of anchor x impulse over a trace, with the anchors of body b.
SumAngular(trace, points, b) ==
    IF trace = <<>> THEN 0
    ELSE LET e == Head(trace)
             r == IF b = 1 THEN points[e.point].anchor1 ELSE points[e.point].anchor2
         IN cross(r, e.impulse) + SumAngular(Tail(trace), points, b)

\* A pass changes the velocities of the two bodies as C4 says.
C4_EqualAndOppositeImpulses_Step ==
    phase \in {"WarmStart", "Solve", "Restitution"} =>
        LET p == SumLinear(last'.trace)
            dv1 == VSub(bodies'[1].linear_velocity, bodies[1].linear_velocity)
            dv2 == VSub(bodies'[2].linear_velocity, bodies[2].linear_velocity)
        IN /\ dv1 = VScale(-inertias[1].inv_mass, p)
           /\ dv2 = VScale(inertias[2].inv_mass, p)
           /\ bodies'[1].angular_velocity = bodies[1].angular_velocity
                 - inertias[1].inv_angular_inertia * SumAngular(last'.trace, Points, 1)
           /\ bodies'[2].angular_velocity = bodies[2].angular_velocity
                 + inertias[2].inv_angular_inertia * SumAngular(last'.trace, Points, 2)
           /\ (inertias[1].inv_mass # 0 /\ inertias[2].inv_mass # 0) =>
                 VAdd(VScale(inertias[2].inv_mass, dv1),
                      VScale(inertias[1].inv_mass, dv2)) = ZeroVec

\* C4: every impulse p of warm_start, solve and apply_restitution changes
\* body1 by -p * inv_mass1 and -inv_inertia1 * (anchor1 x p) and body2 by
\* +p * inv_mass2 and +inv_inertia2 * (anchor2 x p); the linear momentum of
\* two finite-mass bodies is unchanged by each pass.
C4_EqualAndOppositeImpulses == [][C4_EqualAndOppositeImpulses_Step]_vars

\* A restitution pass has applied a non-zero impulse, off the centre of mass
\* of body1, to two bodies of finite mass of which body1 can rotate.
C4_Witness ==
    /\ last.op = "apply_restitution"
    /\ inertias[1].inv_mass # 0 /\ inertias[2].inv_mass # 0
    /\ inertias[1].inv_angular_inertia # 0
    /\ \E k \in DOMAIN last.trace :
          /\ last.trace[k].impulse # ZeroVec
          /\ cross(Points[last.trace[k].point].anchor1, last.trace[k].impulse) # 0

InfiniteMass(b) == inertias[b].inv_mass = 0 /\ inertias[b].inv_angular_inertia = 0

\* A pass leaves the velocities of every infinite-mass body unchanged.
C5_InfiniteMassBodyImmune_Step ==
    phase \in {"WarmStart", "Solve", "Restitution"} =>
        \A b \in DOMAIN bodies :
            InfiniteMass(b) =>
                /\ bodies'[b].linear_velocity = bodies[b].linear_velocity
                /\ bodies'[b].angular_velocity = bodies[b].angular_velocity

\* C5: warm_start, solve and apply_restitution leave the linear and angular
\* velocity of a body unchanged when its effective inverse mass and
\* effective inverse angular inertia are both zero.
C5_InfiniteMassBodyImmune == [][C5_InfiniteMassBodyImmune_Step]_vars

\* A solve has applied an impulse with a moment about body2, which has
\* infinite mass, while body1 has not.
C5_Witness ==
    /\ last.op = "solve"
    /\ InfiniteMass(2) /\ ~InfiniteMass(1)
    /\ \E k \in DOMAIN last.trace :
          /\ last.trace[k].impulse # ZeroVec
          /\ cross(Points[last.trace[k].point].anchor2, last.trace[k].impulse) # 0

\* The points visited by the given pass of the last call, in visiting order.
Visited(pass) ==
    LET t == SelectSeq(last.trace, LAMBDA e : e.pass = pass)
    IN [k \in DOMAIN t |-> t[k].point]

\* C6: within one call of solve the normal impulse of every point is solved
\* and applied before the friction impulse of any point, and the friction
\* clamp of a point is handed the normal impulse the point has accumulated
\* in this call.
C6_NormalBeforeFriction ==
    last.op = "solve" =>
        /\ \A j, k \in DOMAIN last.trace :
              (last.trace[j].pass = "normal" /\ last.trace[k].pass = "friction") => j < k
        /\ { last.trace[k].point : k \in { j \in DOMAIN last.trace :
                                             last.trace[j].pass = "normal" } }
              = DOMAIN Points
        /\ \A k \in DOMAIN last.trace :
              last.trace[k].pass = "friction" =>
                  last.trace[k].detail = Points[last.trace[k].point].normal_part.impulse

\* A solve changed the normal impulse of a point and then applied a friction
\* impulse to the same point.
C6_Witness ==
    /\ last.op = "solve"
    /\ \E j, k \in DOMAIN last.trace :
          /\ last.trace[j].pass = "normal" /\ last.trace[j].impulse # ZeroVec
          /\ last.trace[k].pass = "friction" /\ last.trace[k].impulse # ZeroVec
          /\ last.trace[j].point = last.trace[k].point

\* The passes of one step, in order.
ExpectedPasses ==
    <<"Build", "WarmStart">> \o [k \in 1..SolveIterations |-> "Solve"] \o <<"Restitution">>

\* C7: in every step the passes run in the order Build, WarmStart, Solve
\* repeated SolveIterations times, Restitution: the passes run so far are a
\* prefix of that order, and a finished step has run all of it.
C7_PassOrder ==
    /\ Len(passes) <= Len(ExpectedPasses)
    /\ passes = SubSeq(ExpectedPasses, 1, Len(passes))
    /\ (phase = "Done" \/ (phase = "Build" /\ step > 0)) => passes = ExpectedPasses
    /\ phase = "Restitution" => iter = SolveIterations

\* The last step has finished, after a step before it.
C7_Witness ==
    /\ phase = "Done"
    /\ step > 1
    /\ passes = ExpectedPasses

\* C8: tangent_part is None exactly when the friction of the constraint is
\* zero; a solve of a constraint with zero friction visits no point in its
\* friction pass, and a solve of a constraint with non-zero friction visits
\* every point, in order.
C8_TangentPartIffFriction ==
    /\ \A i \in DOMAIN Points :
          (Points[i].tangent_part = None) <=> (constraints[1].friction = 0)
    /\ last.op = "solve" =>
          Visited("friction") = IF constraints[1].friction = 0 THEN <<>>
                                ELSE [i \in DOMAIN Points |-> i]

\* A solve of a frictionless constraint applied a normal impulse to a point
\* at which the bodies slide along the tangent, and no friction impulse.
C8_Witness ==
    /\ last.op = "solve"
    /\ constraints[1].friction = 0
    /\ \E k \in DOMAIN last.trace :
          LET e == last.trace[k]
              point == Points[e.point]
              tangent == tangent_directions(constraints[1], ZeroVec, ZeroVec)[1]
          IN /\ e.pass = "normal" /\ e.impulse # ZeroVec
             /\ point.tangent_part = None
             /\ Dot(VSub(velocity_at_point(bodies[2], point.anchor2),
                         velocity_at_point(bodies[1], point.anchor1)), tangent) # 0

\* The bodies and constraints that result when solve is called for
\* constraint ci on the bodies and constraints of state s.
SolveCall(s, ci) ==
    LET c == s.constraints[ci]
        r == solve(c, s.bodies[c.body1], s.bodies[c.body2], inertias[c.body1],
                   inertias[c.body2], config.delta_secs, config.use_bias,
                   config.max_overlap_solve_speed, CHOOSE ord \in points_iter(c) : TRUE)
    IN [bodies |-> [s.bodies EXCEPT ![c.body1] = r.body1, ![c.body2] = r.body2],
        constraints |-> [s.constraints EXCEPT ![ci].points = r.points]]

Sequential(first, second) == SolveCall(SolveCall(start, first), second)

AllDone == tasks # <<>> /\ \A ci \in DOMAIN tasks : tasks[ci].pc = "done"

\* C9: solve calls of two constraints that share a body never run at the
\* same time, and the bodies and accumulators they leave are those of the
\* two calls made one after the other; when the constraints share no body,
\* every interleaving of the calls leaves what either order of the two
\* calls leaves.
C9_DisjointConstraintsCommute ==
    /\ \A ci, cj \in DOMAIN tasks :
          (ci # cj /\ Running(ci) /\ Running(cj)) => BodiesOf(ci) \cap BodiesOf(cj) = {}
    /\ AllDone =>
          LET now == [bodies |-> bodies, constraints |-> constraints]
          IN /\ now \in {Sequential(1, 2), Sequential(2, 1)}
             /\ BodiesOf(1) \cap BodiesOf(2) = {} =>
                   (now = Sequential(1, 2) /\ now = Sequential(2, 1))

\* Two calls on disjoint bodies have run overlapped in time and both have
\* applied impulses.
C9_Witness ==
    /\ AllDone
    /\ BodiesOf(1) \cap BodiesOf(2) = {}
    /\ \A ci \in DOMAIN tasks :
          /\ tasks[ci].overlapped
          /\ \E k \in DOMAIN tasks[ci].trace : tasks[ci].trace[k].impulse # ZeroVec

\* The points a pass visits are visited in increasing index order.
InIndexOrder(pass) ==
    LET v == Visited(pass)
    IN \A j, k \in DOMAIN v : j < k => v[j] < v[k]

HalfTurn == [cos |-> -1, sin |-> 0]
ThreeQuarterTurn == [cos |-> 0, sin |-> -1]

\* Rotation::inverse and the product of two rotations.
inverse(rot) == [cos |-> rot.cos, sin |-> -rot.sin]
RotMul(a, b) == [cos |-> a.cos * b.cos - a.sin * b.sin, sin |-> a.sin * b.cos + a.cos * b.sin]

VNeg(v) == <<-v[1], -v[2]>>
Sign(a) == IF a > 0 THEN 1 ELSE IF a < 0 THEN -1 ELSE 0
\* Length of a vector lying on a coordinate axis.
Length(v) == Abs(v[1]) + Abs(v[2])
\* Vector::normalize on a vector lying on a coordinate axis; the zero vector
\* is divided by its zero length and stays invalid.
normalize(v) == <<Sign(v[1]), Sign(v[2])>>
\* Vector::is_normalized.
is_normalized(v) == Dot(v, v) = 1

\* Result and Option values of the queries.
Ok(v) == [ok |-> TRUE, value |-> v]
Unsupported == [ok |-> FALSE, value |-> <<"UnsupportedShape">>]

make_isometry(position, rotation) == [translation |-> position, rotation |-> rotation]
\* Isometry::inv_mul: the second pose expressed in the frame of the first.
inv_mul(a, b) ==
    [translation |-> Rotate(inverse(a.rotation), VSub(b.translation, a.translation)),
     rotation |-> RotMul(inverse(a.rotation), b.rotation)]
transform_point(iso, p) == VAdd(Rotate(iso.rotation, p), iso.translation)

(***************************************************************************)
(* The geometry layer the queries delegate to.  A collider is a ball, a    *)
(* cuboid, a convex custom shape known only by its support map, or a       *)
(* custom shape without support map; `half` is its radius or half extent,  *)
(* and a degenerate collider is one of the "invalid shapes" of the         *)
(* queries' documentation, for which no contact normal is defined.         *)
(***************************************************************************)
Collider(kind, half, degenerate) == [kind |-> kind, half |-> half, degenerate |-> degenerate]

\* Shape::as_support_map.
as_support_map(shape) == IF shape.kind \in {"ball", "cuboid", "convex"} THEN Some(shape) ELSE None

\* The pairs the single-contact, distance, intersection and shape-cast
\* queries have an algorithm for, and the pairs the manifold dispatcher has
\* an exact algorithm for.
has_algorithm(shape1, shape2) == as_support_map(shape1) # None /\ as_support_map(shape2) # None
has_manifold_algorithm(shape1, shape2) == {shape1.kind, shape2.kind} \subseteq {"ball", "cuboid"}

\* Direction from the first shape to the second along their common axis
\* (concentric shapes: the geometry layer's default axis).
axis(d) == IF d = ZeroVec THEN <<0, 1>> ELSE normalize(d)
\* Signed distance between the two shapes: negative when they overlap.
signed_distance(pos12, shape1, shape2) == Length(pos12.translation) - shape1.half - shape2.half
\* Contact normal on the first shape, in its local frame.
local_normal1(pos12, shape1, shape2) ==
    IF shape1.degenerate \/ shape2.degenerate THEN ZeroVec ELSE axis(pos12.translation)

\* The contact of two shapes, each side in the local frame of its shape.
local_contact(pos12, shape1, shape2) ==
    LET n == axis(pos12.translation)
        normal1 == local_normal1(pos12, shape1, shape2)
    IN [point1 |-> VScale(shape1.half, n),
        point2 |-> Rotate(inverse(pos12.rotation), VScale(-shape2.half, n)),
        normal1 |-> normal1,
        normal2 |-> Rotate(inverse(pos12.rotation), VNeg(normal1)),
        dist |-> signed_distance(pos12, shape1, shape2)]

\* parry::query::contact::contact_support_map_support_map.
contact_support_map_support_map(pos12, shape1, shape2, prediction) ==
    IF signed_distance(pos12, shape1, shape2) <= prediction
    THEN Some(local_contact(pos12, shape1, shape2))
    ELSE None

\* parry::query::contact: the contact in world space.
parry_contact(pos1, shape1, pos2, shape2, prediction) ==
    LET pos12 == inv_mul(pos1, pos2)
        found == contact_support_map_support_map(pos12, shape1, shape2, prediction)
    IN IF ~has_algorithm(shape1, shape2) THEN Unsupported
       ELSE IF found = None THEN Ok(None)
       ELSE Ok(Some([point1 |-> transform_point(pos1, found[1].point1),
                     point2 |-> transform_point(pos2, found[1].point2),
                     normal1 |-> Rotate(pos1.rotation, found[1].normal1),
                     normal2 |-> Rotate(pos2.rotation, found[1].normal2),
                     dist |-> found[1].dist]))

\* The contacts of a manifold of the dispatcher: none beyond the prediction
\* distance, one for a pair with a round shape, the two ends of the common
\* face for two cuboids.
tracked_contacts(pos12, shape1, shape2, prediction) ==
    LET c == local_contact(pos12, shape1, shape2)
        n == axis(pos12.translation)
        t == <<-n[2], n[1]>>
        w == Min(shape1.half, shape2.half)
        end(s, fid) ==
            [local_p1 |-> VAdd(c.point1, VScale(s * w, t)),
             local_p2 |-> VAdd(c.point2, Rotate(inverse(pos12.rotation), VScale(s * w, t))),
             dist |-> c.dist, fid1 |-> fid, fid2 |-> fid]
    IN IF c.dist > prediction THEN <<>>
       ELSE IF {shape1.kind, shape2.kind} = {"cuboid"} THEN <<end(-1, 1), end(1, 2)>>
       ELSE <<end(0, 0)>>

\* PersistentQueryDispatcher::contact_manifolds of the default dispatcher on
\* an empty workspace: it allocates the manifold of the pair, then fills it
\* or reports the pair as unsupported.
dispatcher_contact_manifolds(pos12, shape1, shape2, prediction) ==
    IF has_manifold_algorithm(shape1, shape2)
    THEN [ok |-> TRUE,
          manifolds |-> <<[contacts |-> tracked_contacts(pos12, shape1, shape2, prediction),
                           local_n1 |-> local_normal1(pos12, shape1, shape2),
                           subshape_pos1 |-> None, subshape_pos2 |-> None]>>]
    ELSE [ok |-> FALSE,
          manifolds |-> <<[contacts |-> <<>>, local_n1 |-> ZeroVec,
                           subshape_pos1 |-> None, subshape_pos2 |-> None]>>]

\* parry::query::closest_points.
parry_closest_points(pos1, shape1, pos2, shape2, max_distance) ==
    LET pos12 == inv_mul(pos1, pos2)
        d == signed_distance(pos12, shape1, shape2)
        n == axis(VSub(pos2.translation, pos1.translation))
    IN IF ~has_algorithm(shape1, shape2) THEN Unsupported
       ELSE IF d <= 0 THEN Ok([kind |-> "Intersecting"])
       ELSE IF d <= max_distance
       THEN Ok([kind |-> "WithinMargin",
                point1 |-> VAdd(pos1.translation, VScale(shape1.half, n)),
                point2 |-> VSub(pos2.translation, VScale(shape2.half, n))])
       ELSE Ok([kind |-> "Disjoint"])

\* parry::query::distance.
parry_distance(pos1, shape1, pos2, shape2) ==
    IF ~has_algorithm(shape1, shape2) THEN Unsupported
    ELSE Ok(Max(signed_distance(inv_mul(pos1, pos2), shape1, shape2), 0))

\* parry::query::intersection_test.
parry_intersection_test(pos1, shape1, pos2, shape2) ==
    IF ~has_algorithm(shape1, shape2) THEN Unsupported
    ELSE Ok(signed_distance(inv_mul(pos1, pos2), shape1, shape2) <= 0)

\* parry::query::cast_shapes for velocities along the common axis: shapes
\* that overlap at the start are reported at time 0 when the cast stops at
\* penetration, or when they are not moving apart; otherwise the hit is the
\* first contact, if it comes within the maximum time of impact.
cast_shapes(pos1, vel1, shape1, pos2, vel2, shape2, options) ==
    LET pos12 == inv_mul(pos1, pos2)
        d == signed_distance(pos12, shape1, shape2)
        n == axis(VSub(pos2.translation, pos1.translation))
        closing == Dot(VSub(vel1, vel2), n)
        c == local_contact(pos12, shape1, shape2)
        hit(t, status) ==
            [time_of_impact |-> t, witness1 |-> c.point1, witness2 |-> c.point2,
             normal1 |-> c.normal1, normal2 |-> c.normal2, status |-> status]
    IN IF ~has_algorithm(shape1, shape2) THEN Unsupported
       ELSE IF d <= 0
       THEN IF options.stop_at_penetration \/ closing >= 0
            THEN Ok(Some(hit(0, "PenetratingOrWithinTargetDist")))
            ELSE Ok(None)
       ELSE IF closing > 0 /\ d <= closing * options.max_time_of_impact
       THEN Ok(Some(hit(d \div closing, "Converged")))
       ELSE Ok(None)

(***************************************************************************)
(* The queries of contact_query.rs.                                        *)
(***************************************************************************)
\* The penetration stored for a contact of signed distance dist.
penetration_kept_signed(dist) == dist
penetration_of(dist) == -dist

\* The validity check of the two local-space normals of contact.
normals_unchecked(normal1, normal2) == FALSE
normals_invalid(normal1, normal2) == ~is_normalized(normal1) \/ ~is_normalized(normal2)

contact(collider1, position1, rotation1, collider2, position2, rotation2, prediction_distance) ==
    LET isometry1 == make_isometry(position1, rotation1)
        isometry2 == make_isometry(position2, rotation2)
        result == parry_contact(isometry1, collider1, isometry2, collider2, prediction_distance)
    IN IF ~result.ok THEN result
       ELSE IF result.value = None THEN Ok(None)
       ELSE LET found == result.value[1]
                \* Transform contact data into local space
                point1 == Rotate(inverse(rotation1), found.point1)
                point2 == Rotate(inverse(rotation2), found.point2)
                normal1 == normalize(Rotate(inverse(rotation1), found.normal1))
                normal2 == normalize(Rotate(inverse(rotation2), found.normal2))
            IN \* Make sure the normals are valid
               IF normals_invalid(normal1, normal2) THEN Ok(None)
               ELSE Ok(Some([point1 |-> point1, point2 |-> point2,
                             normal1 |-> normal1, normal2 |-> normal2,
                             penetration |-> penetration_of(found.dist)]))

\* Vec::clear on the output buffer.
clear_nothing(out_manifolds) == out_manifolds
clear(out_manifolds) == <<>>

\* Option::unwrap_or_default on a sub-shape pose.
unwrap_or_default(subpos) == IF subpos = None THEN make_isometry(ZeroVec, Identity) ELSE subpos[1]

\* The closure of the filter_map over the dispatcher's manifolds: None for a
\* manifold that is skipped.
keep_empty(manifold) == FALSE
skip_empty(manifold) == manifold.contacts = <<>>

keep_invalid_normal(normal) == FALSE
skip_invalid_normal(normal) == ~is_normalized(normal)

convert_manifold(manifold, rotation1) ==
    LET subpos1 == unwrap_or_default(manifold.subshape_pos1)
        subpos2 == unwrap_or_default(manifold.subshape_pos2)
        local_normal == normalize(Rotate(subpos1.rotation, manifold.local_n1))
        normal == Rotate(rotation1, local_normal)
        points == [i \in DOMAIN manifold.contacts |->
                     [local_point1 |-> transform_point(subpos1, manifold.contacts[i].local_p1),
                      local_point2 |-> transform_point(subpos2, manifold.contacts[i].local_p2),
                      penetration |-> penetration_of(manifold.contacts[i].dist),
                      feature_id1 |-> manifold.contacts[i].fid1,
                      feature_id2 |-> manifold.contacts[i].fid2]]
    IN IF skip_empty(manifold) THEN None
       ELSE IF skip_invalid_normal(normal) THEN None
       ELSE Some([points |-> points, normal |-> normal])

RECURSIVE filter_map_manifolds(_, _)
filter_map_manifolds(new_manifolds, rotation1) ==
    IF new_manifolds = <<>> THEN <<>>
    ELSE convert_manifold(Head(new_manifolds), rotation1)
            \o filter_map_manifolds(Tail(new_manifolds), rotation1)

\* The fallback of contact_manifolds: the support-map contact of a pair the
\* dispatcher does not support, None when there is none.
fallback_contact_any_distance(dispatched, isometry12, collider1, collider2, prediction_distance) ==
    IF ~dispatched.ok /\ as_support_map(collider1) # None /\ as_support_map(collider2) # None
    THEN contact_support_map_support_map(isometry12, as_support_map(collider1)[1],
                                         as_support_map(collider2)[1], 1000000)
    ELSE None
fallback_contact(dispatched, isometry12, collider1, collider2, prediction_distance) ==
    IF ~dispatched.ok /\ as_support_map(collider1) # None /\ as_support_map(collider2) # None
    THEN contact_support_map_support_map(isometry12, as_support_map(collider1)[1],
                                         as_support_map(collider2)[1], prediction_distance)
    ELSE None

\* contact_manifolds: the value of the output buffer after the call.
contact_manifolds(collider1, position1, rotation1, collider2, position2, rotation2, prediction_distance, out_manifolds) ==
    LET isometry1 == make_isometry(position1, rotation1)
        isometry2 == make_isometry(position2, rotation2)
        isometry12 == inv_mul(isometry1, isometry2)
        dispatched == dispatcher_contact_manifolds(isometry12, collider1, collider2, prediction_distance)
        new_manifolds == dispatched.manifolds
        \* Clear the old manifolds.
        cleared == clear(out_manifolds)
        \* Fall back to support map contacts for unsupported (custom) shapes.
        found == fallback_contact(dispatched, isometry12, collider1, collider2, prediction_distance)
        normal == Rotate(rotation1, found[1].normal1)
        points == <<[local_point1 |-> found[1].point1, local_point2 |-> found[1].point2,
                     penetration |-> penetration_of(found[1].dist),
                     feature_id1 |-> 0, feature_id2 |-> 0]>>
    IN IF found # None /\ skip_invalid_normal(normal) THEN cleared
       ELSE (IF found # None THEN Append(cleared, [points |-> points, normal |-> normal]) ELSE cleared)
               \o filter_map_manifolds(new_manifolds, rotation1)

\* The mapping of the geometry layer's classification to ClosestPoints.
map_closest_points_shifted(closest) == IF closest.kind = "Intersecting" THEN [kind |-> "OutsideMargin"] ELSE IF closest.kind = "WithinMargin" THEN [kind |-> "Intersecting"] ELSE closest
map_closest_points(closest) == IF closest.kind = "Disjoint" THEN [kind |-> "OutsideMargin"] ELSE closest

closest_points(collider1, position1, rotation1, collider2, position2, rotation2, max_distance) ==
    LET isometry1 == make_isometry(position1, rotation1)
        isometry2 == make_isometry(position2, rotation2)
        result == parry_closest_points(isometry1, collider1, isometry2, collider2, max_distance)
    IN IF ~result.ok THEN result ELSE Ok(map_closest_points(result.value))

distance(collider1, position1, rotation1, collider2, position2, rotation2) ==
    LET isometry1 == make_isometry(position1, rotation1)
        isometry2 == make_isometry(position2, rotation2)
    IN parry_distance(isometry1, collider1, isometry2, collider2)

intersection_test_same_pose(collider1, position1, rotation1, collider2, position2, rotation2) ==
    LET isometry1 == make_isometry(position1, rotation1)
    IN parry_intersection_test(isometry1, collider1, isometry1, collider2)
intersection_test(collider1, position1, rotation1, collider2, position2, rotation2) ==
    LET isometry1 == make_isometry(position1, rotation1)
        isometry2 == make_isometry(position2, rotation2)
    IN parry_intersection_test(isometry1, collider1, isometry2, collider2)

\* The ShapeCastOptions of time_of_impact.
cast_options_unbounded(max_time_of_impact) == [max_time_of_impact |-> 1000000, stop_at_penetration |-> TRUE]
cast_options(max_time_of_impact) == [max_time_of_impact |-> max_time_of_impact, stop_at_penetration |-> TRUE]

time_of_impact(collider1, position1, rotation1, velocity1, collider2, position2, rotation2, velocity2, max_time_of_impact) ==
    LET isometry1 == make_isometry(position1, rotation1)
        isometry2 == make_isometry(position2, rotation2)
        result == cast_shapes(isometry1, velocity1, collider1, isometry2, velocity2, collider2,
                              cast_options(max_time_of_impact))
    IN IF ~result.ok \/ result.value = None THEN result
       ELSE LET toi == result.value[1]
            IN Ok(Some([time_of_impact |-> toi.time_of_impact,
                        point1 |-> toi.witness1, point2 |-> toi.witness2,
                        normal1 |-> toi.normal1, normal2 |-> toi.normal2,
                        status |-> toi.status]))

(***************************************************************************)
(* The queries as operations on a scene of two colliders: a caller makes   *)
(* queries in any order and hands contact_manifolds the same buffer every  *)
(* time.                                                                   *)
(***************************************************************************)
ColliderSet ==
    { Collider("ball", 2, FALSE), Collider("cuboid", 2, FALSE), Collider("convex", 2, FALSE),
      Collider("custom", 2, FALSE), Collider("cuboid", 2, TRUE) }

\* Positions of the two colliders: the offsets of the documentation tests
\* (0, 0.5, 1.5, 2.0, 5.0 along x, and -5.0 against 5.0) and some others.
PositionPairs ==
    { <<ZeroVec, p>> : p \in { <<0, 0>>, <<2, 0>>, <<4, 0>>, <<6, 0>>, <<8, 0>>, <<20, 0>>,
                               <<-6, 0>>, <<0, 6>>, <<0, -4>> } }
        \cup { << <<-20, 0>>, <<20, 0>> >> }

RotationSet == { Identity, QuarterTurn, HalfTurn, ThreeQuarterTurn }
PredictionSet == { 0, 2, 4 }
MaxDistanceSet == { 0, 2, 8 }
MaxTimeSet == { 4, 400 }
SpeedSet == { -1, 0, 1 }

\* A manifold left in the buffer by an earlier frame.
StaleManifold ==
    [points |-> <<[local_point1 |-> <<1, 0>>, local_point2 |-> <<-1, 0>>, penetration |-> 1,
                   feature_id1 |-> 0, feature_id2 |-> 0]>>,
     normal |-> <<1, 0>>]

\* The solver and the joint take no part in the queries.
SolverIdle ==
    /\ bodies = <<>>
    /\ inertias = <<>>
    /\ manifolds = <<>>
    /\ config = <<>>
    /\ constraints = <<>>
    /\ phase = "Idle"
    /\ iter = 0
    /\ step = 0
    /\ passes = <<>>
    /\ last = NoPass
    /\ tasks = <<>>
    /\ start = <<>>
    /\ shadow = <<>>

InitQuery ==
    /\ SolverIdle
    /\ joint = NoJoint
    /\ \E c1 \in ColliderSet, c2 \in ColliderSet, pp \in PositionPairs,
          r1 \in RotationSet, r2 \in { Identity, QuarterTurn },
          buffer \in { <<>>, <<StaleManifold>> } :
          query = [op |-> "none", args |-> <<>>, result |-> <<>>, manifolds |-> buffer,
                   collider1 |-> c1, position1 |-> pp[1], rotation1 |-> r1,
                   collider2 |-> c2, position2 |-> pp[2], rotation2 |-> r2]

QueryUnchanged == UNCHANGED <<bodies, inertias, manifolds, config, constraints, phase, iter, step, passes, last, tasks, start, shadow, joint>>

ContactQuery ==
    /\ query.op # "contact"
    /\ \E prediction_distance \in PredictionSet :
          query' = [query EXCEPT
                      !.op = "contact",
                      !.args = [prediction_distance |-> prediction_distance],
                      !.result = contact(query.collider1, query.position1, query.rotation1,
                                         query.collider2, query.position2, query.rotation2,
                                         prediction_distance)]
    /\ QueryUnchanged

ContactManifoldsQuery ==
    /\ \E prediction_distance \in PredictionSet :
          query' = [query EXCEPT
                      !.op = "contact_manifolds",
                      !.args = [prediction_distance |-> prediction_distance,
                                manifolds |-> query.manifolds],
                      !.result = <<>>,
                      !.manifolds = contact_manifolds(query.collider1, query.position1, query.rotation1,
                                                      query.collider2, query.position2, query.rotation2,
                                                      prediction_distance, query.manifolds)]
    /\ QueryUnchanged

ClosestPointsQuery ==
    /\ query.op # "closest_points"
    /\ \E max_distance \in MaxDistanceSet :
          query' = [query EXCEPT
                      !.op = "closest_points",
                      !.args = [max_distance |-> max_distance],
                      !.result = closest_points(query.collider1, query.position1, query.rotation1,
                                                query.collider2, query.position2, query.rotation2,
                                                max_distance)]
    /\ QueryUnchanged

DistanceQuery ==
    /\ query.op # "distance"
    /\ query' = [query EXCEPT
                   !.op = "distance",
                   !.args = <<>>,
                   !.result = distance(query.collider1, query.position1, query.rotation1,
                                       query.collider2, query.position2, query.rotation2)]
    /\ QueryUnchanged

IntersectionTestQuery ==
    /\ query.op # "intersection_test"
    /\ query' = [query EXCEPT
                   !.op = "intersection_test",
                   !.args = <<>>,
                   !.result = intersection_test(query.collider1, query.position1, query.rotation1,
                                                query.collider2, query.position2, query.rotation2)]
    /\ QueryUnchanged

\* The direction from the first collider to the second, along which the
\* two velocities of a time-of-impact query lie.
SceneAxis == axis(VSub(query.position2, query.position1))

TimeOfImpactQuery ==
    /\ query.op # "time_of_impact"
    /\ \E speed1 \in SpeedSet, speed2 \in SpeedSet, max_time_of_impact \in MaxTimeSet :
          LET velocity1 == VScale(speed1, SceneAxis)
              velocity2 == VScale(speed2, SceneAxis)
          IN query' = [query EXCEPT
                         !.op = "time_of_impact",
                         !.args = [velocity1 |-> velocity1, velocity2 |-> velocity2,
                                   max_time_of_impact |-> max_time_of_impact],
                         !.result = time_of_impact(query.collider1, query.position1, query.rotation1,
                                                   velocity1, query.collider2, query.position2,
                                                   query.rotation2, velocity2, max_time_of_impact)]
    /\ QueryUnchanged

NextQuery ==
    \/ ContactQuery
    \/ ContactManifoldsQuery
    \/ ClosestPointsQuery
    \/ DistanceQuery
    \/ IntersectionTestQuery
    \/ TimeOfImpactQuery

SpecQuery == InitQuery /\ [][NextQuery]_vars

(***************************************************************************)
(* Properties of the contact queries.                                      *)
(***************************************************************************)
\* The signed distance of the two colliders of the scene, in world space.
SceneGap ==
    Length(VSub(query.position2, query.position1)) - query.collider1.half - query.collider2.half
\* One of the colliders is an invalid shape.
SceneDegenerate == query.collider1.degenerate \/ query.collider2.degenerate
\* Both colliders are convex shapes with a support map.
SceneSupportMaps == as_support_map(query.collider1) # None /\ as_support_map(query.collider2) # None
\* The manifold dispatcher has an exact algorithm for the pair.
SceneDispatched == has_manifold_algorithm(query.collider1, query.collider2)

\* contact_manifolds on the scene.
SceneManifolds(prediction_distance, buffer) ==
    contact_manifolds(query.collider1, query.position1, query.rotation1,
                      query.collider2, query.position2, query.rotation2,
                      prediction_distance, buffer)

Range(s) == { s[i] : i \in DOMAIN s }

\* C11: after a call of contact_manifolds the output buffer holds exactly
\* the manifolds the call computes for its colliders, poses and prediction
\* distance, whatever the buffer held before: on every path (dispatcher
\* success, support-map fallback, fallback rejected for an invalid normal,
\* unsupported pair without support maps) nothing of the old content is left.
C11_BufferReplaced ==
    query.op = "contact_manifolds" =>
        /\ query.manifolds = SceneManifolds(query.args.prediction_distance, <<>>)
        /\ StaleManifold \notin Range(query.manifolds)

\* A call on a buffer that held a manifold has rejected the fallback contact
\* for its invalid normal and left the buffer empty.
C11_Witness ==
    /\ query.op = "contact_manifolds"
    /\ query.args.manifolds # <<>>
    /\ ~SceneDispatched /\ SceneSupportMaps /\ SceneDegenerate
    /\ SceneGap <= query.args.prediction_distance
    /\ query.manifolds = <<>>

\* C12: every manifold in the output buffer after contact_manifolds has at
\* least one contact point and a unit-length normal.
C12_ManifoldsValid ==
    query.op = "contact_manifolds" =>
        \A i \in DOMAIN query.manifolds :
            /\ Len(query.manifolds[i].points) >= 1
            /\ is_normalized(query.manifolds[i].normal)

\* The dispatcher has produced a manifold with contacts and an invalid
\* normal, and the buffer is empty.
C12_Witness ==
    /\ query.op = "contact_manifolds"
    /\ SceneDispatched /\ SceneDegenerate
    /\ SceneGap <= query.args.prediction_distance
    /\ query.manifolds = <<>>

\* C13 (as claimed): for a pair the dispatcher does not support, the output
\* is exactly one manifold of exactly one point when both shapes have a
\* support map and their support-map contact is within the prediction
\* distance, and it is empty when there is no such contact.
C13_FallbackSingleManifold ==
    (query.op = "contact_manifolds" /\ ~SceneDispatched) =>
        IF SceneSupportMaps /\ SceneGap <= query.args.prediction_distance
        THEN Len(query.manifolds) = 1 /\ Len(query.manifolds[1].points) = 1
        ELSE query.manifolds = <<>>

\* C13 (amended): the single one-point manifold is the output when the
\* support-map contact is within the prediction distance and its normal is
\* unit length; the output is empty when a shape has no support map, when
\* the shapes are farther apart than the prediction distance, and when the
\* normal of the fallback contact is not unit length.
C13_FallbackSingleManifoldOrInvalid ==
    (query.op = "contact_manifolds" /\ ~SceneDispatched) =>
        IF SceneSupportMaps /\ SceneGap <= query.args.prediction_distance /\ ~SceneDegenerate
        THEN Len(query.manifolds) = 1 /\ Len(query.manifolds[1].points) = 1
        ELSE query.manifolds = <<>>

\* The fallback has produced its manifold for a cuboid and a convex custom
\* shape that overlap.
C13_Witness ==
    /\ query.op = "contact_manifolds"
    /\ query.collider1.kind = "cuboid" /\ query.collider2.kind = "convex"
    /\ ~SceneDegenerate
    /\ SceneGap < 0
    /\ Len(query.manifolds) = 1

\* C14: contact returns Err(UnsupportedShape) exactly when the pair has no
\* algorithm; Ok(None) when the shapes are farther apart than the
\* prediction distance or a local-space normal is not unit length;
\* otherwise Ok(Some) of one point pair with two unit normals.
C14_ContactClassified ==
    query.op = "contact" =>
        LET r == query.result
        IN /\ ~r.ok <=> ~SceneSupportMaps
           /\ r.ok =>
                 IF SceneGap > query.args.prediction_distance \/ SceneDegenerate
                 THEN r.value = None
                 ELSE /\ Len(r.value) = 1
                      /\ is_normalized(r.value[1].normal1)
                      /\ is_normalized(r.value[1].normal2)

\* contact has answered Ok(None) for overlapping shapes, one of them invalid.
C14_Witness ==
    /\ query.op = "contact"
    /\ SceneSupportMaps /\ SceneDegenerate
    /\ SceneGap < 0
    /\ query.result = Ok(None)

\* The scene of the documentation tests: a sphere of radius 0.5 at the
\* origin and a cuboid of side 1 at the given offset along x.
DocScene(offset) ==
    /\ query.collider1 = Collider("ball", 2, FALSE)
    /\ query.collider2 = Collider("cuboid", 2, FALSE)
    /\ query.position1 = ZeroVec
    /\ query.position2 = <<offset, 0>>

\* C15: the penetration of every contact point is the negated signed
\* distance of the shapes, in contact and in both paths of
\* contact_manifolds; the sphere at the origin and the cuboid at x = 0.5
\* have penetration 0.5 at prediction distance 0.
C15_PenetrationIsNegatedDistance ==
    /\ (query.op = "contact" /\ query.result.ok /\ query.result.value # None) =>
          query.result.value[1].penetration = -SceneGap
    /\ query.op = "contact_manifolds" =>
          \A i \in DOMAIN query.manifolds : \A j \in DOMAIN query.manifolds[i].points :
              query.manifolds[i].points[j].penetration = -SceneGap
    /\ (query.op = "contact" /\ DocScene(2) /\ query.args.prediction_distance = 0) =>
          /\ query.result.ok /\ query.result.value # None
          /\ query.result.value[1].penetration = 2

\* The contact of the documentation test has been computed.
C15_Witness ==
    /\ query.op = "contact"
    /\ DocScene(2)
    /\ query.args.prediction_distance = 0
    /\ query.result.value[1].penetration = 2

\* The other queries on the scene.
SceneDistance ==
    distance(query.collider1, query.position1, query.rotation1,
             query.collider2, query.position2, query.rotation2)
SceneIntersectionTest ==
    intersection_test(query.collider1, query.position1, query.rotation1,
                      query.collider2, query.position2, query.rotation2)
SceneClosestPoints(max_distance) ==
    closest_points(query.collider1, query.position1, query.rotation1,
                   query.collider2, query.position2, query.rotation2, max_distance)

\* C16: for a supported pair, distance is never negative, and the answer of
\* each of distance, intersection_test and closest_points agrees with the
\* other two on the same colliders and poses: distance is 0 if and only if
\* intersection_test is true, and if and only if closest_points is
\* Intersecting, for every maximum distance.
C16_QueriesAgree ==
    SceneSupportMaps =>
        /\ query.op = "distance" =>
              /\ query.result.ok /\ query.result.value >= 0
              /\ (query.result.value = 0) <=> SceneIntersectionTest.value
              /\ \A m \in MaxDistanceSet :
                    (query.result.value = 0) <=> (SceneClosestPoints(m).value.kind = "Intersecting")
        /\ query.op = "intersection_test" =>
              /\ query.result.ok
              /\ query.result.value <=> (SceneDistance.value = 0)
              /\ \A m \in MaxDistanceSet :
                    query.result.value <=> (SceneClosestPoints(m).value.kind = "Intersecting")
        /\ query.op = "closest_points" =>
              /\ query.result.ok
              /\ (query.result.value.kind = "Intersecting") <=> (SceneDistance.value = 0)
              /\ (query.result.value.kind = "Intersecting") <=> SceneIntersectionTest.value

\* intersection_test has answered true for two shapes that touch without
\* overlapping, at offset 1.0.
C16_Witness ==
    /\ query.op = "intersection_test"
    /\ DocScene(4)
    /\ query.rotation1 = QuarterTurn
    /\ query.result = Ok(TRUE)

\* C17: for a supported pair at distance d, closest_points is Intersecting
\* when d <= 0, WithinMargin(p1, p2) with |p1 - p2| = d when
\* 0 < d <= max_distance, and OutsideMargin when d > max_distance; with
\* max_distance 2.0 the sphere and the cuboid give
\* WithinMargin(0.5 x, 1.0 x) at offset 1.5 and OutsideMargin at offset 5.0.
C17_ClosestPointsClassified ==
    (query.op = "closest_points" /\ SceneSupportMaps) =>
        LET r == query.result.value
        IN /\ query.result.ok
           /\ r.kind \in {"Intersecting", "WithinMargin", "OutsideMargin"}
           /\ r.kind = "Intersecting" <=> SceneGap <= 0
           /\ r.kind = "WithinMargin" <=> (0 < SceneGap /\ SceneGap <= query.args.max_distance)
           /\ r.kind = "OutsideMargin" <=> SceneGap > query.args.max_distance /\ SceneGap > 0
           /\ r.kind = "WithinMargin" => Length(VSub(r.point2, r.point1)) = SceneGap
           /\ (DocScene(6) /\ query.args.max_distance = 8) =>
                 r = [kind |-> "WithinMargin", point1 |-> <<2, 0>>, point2 |-> <<4, 0>>]
           /\ (DocScene(20) /\ query.args.max_distance = 8) => r = [kind |-> "OutsideMargin"]

\* closest_points has answered the second case of the documentation test.
C17_Witness ==
    /\ query.op = "closest_points"
    /\ DocScene(6)
    /\ query.args.max_distance = 8
    /\ query.result.value.kind = "WithinMargin"

\* The closing speed of a time-of-impact query, and whether the two shapes
\* ever come into contact.
ClosingSpeed == Dot(VSub(query.args.velocity1, query.args.velocity2), SceneAxis)

\* C18: for a supported pair, time_of_impact is Ok(None) when the shapes
\* never touch or first touch later than max_time_of_impact; otherwise it
\* is Ok(Some) with a time in [0, max_time_of_impact] that is the time of
\* first contact: 0 for shapes that overlap or touch at the start, the gap
\* divided by the closing speed otherwise (4.5 for the gap of 9 closed at
\* speed 2).
C18_FirstImpactWithinMaximum ==
    (query.op = "time_of_impact" /\ SceneSupportMaps) =>
        LET r == query.result
            max_time_of_impact == query.args.max_time_of_impact
        IN /\ r.ok
           /\ IF SceneGap <= 0
              THEN r.value # None /\ r.value[1].time_of_impact = 0
              ELSE IF ClosingSpeed <= 0 \/ SceneGap > ClosingSpeed * max_time_of_impact
              THEN r.value = None
              ELSE /\ r.value # None
                   /\ r.value[1].time_of_impact * ClosingSpeed = SceneGap
                   /\ r.value[1].time_of_impact >= 0
                   /\ r.value[1].time_of_impact <= max_time_of_impact
           /\ ( /\ query.collider1.kind = "ball" /\ query.collider2.kind = "cuboid"
                /\ ~SceneDegenerate
                /\ query.position1 = <<-20, 0>>
                /\ ClosingSpeed = 2 /\ max_time_of_impact = 400 ) =>
                 r.value # None /\ r.value[1].time_of_impact = 18

\* The time of impact of the documentation test has been computed.
C18_Witness ==
    /\ query.op = "time_of_impact"
    /\ query.collider1 = Collider("ball", 2, FALSE)
    /\ query.collider2 = Collider("cuboid", 2, FALSE)
    /\ query.position1 = <<-20, 0>>
    /\ query.args.velocity1 = <<1, 0>> /\ query.args.velocity2 = <<-1, 0>>
    /\ query.args.max_time_of_impact = 400
    /\ query.result.value[1].time_of_impact = 18

(***************************************************************************)
(* Motorized joints (crates/avian2d/examples/joint_motors_2d.rs).          *)
(*                                                                         *)
(* The example builds three joints between a static and a dynamic body of  *)
(* mass 1 and angular inertia 1, each with one motor on its free axis, and *)
(* changes the motors from the keyboard.  The joint state is the relative  *)
(* position x and the relative velocity v along the free axis.  Angles are *)
(* counted in units of 0.5 rad, slider positions in units of 25, one       *)
(* solver step is one unit of time, and gravity changes the velocity of    *)
(* the slider by one unit per step.                                        *)
(***************************************************************************)
\* Key presses that change a target, per run.
MaxPresses == 1

\* Scalar::MAX, the "unbounded" maximum force or torque.
ScalarMax == 1000000

Motor(model, target_velocity, target_position, max_force) ==
    [enabled |-> TRUE, motor_model |-> model, target_velocity |-> target_velocity,
     target_position |-> target_position, max_force |-> max_force]

Joint(name, motor, limits, gravity) ==
    [name |-> name, motor |-> motor, limits |-> limits, gravity |-> gravity,
     x |-> 0, v |-> 0, motor_impulse |-> 0,
     steps |-> 0, presses |-> 0,
     last |-> [op |-> "setup", motor |-> 0, limit |-> 0, clamped |-> FALSE]]

\* The three joints of setup: the velocity-controlled revolute joint, the
\* position-controlled revolute joint and the prismatic joint with limits.
VelocityMotorJoint(max_torque) ==
    Joint("VelocityMotorJoint", Motor("AccelerationBased", 5, 0, max_torque), None, 0)
PositionMotorJoint(max_torque) ==
    Joint("PositionMotorJoint", Motor("SpringDamper", 0, 0, max_torque), None, 0)
PrismaticMotorJoint(max_force) ==
    Joint("PrismaticMotorJoint", Motor("SpringDamper", 0, 2, max_force), Some(<<-4, 4>>), -1)

\* The joints of the example, and the same joints with a motor too weak to
\* reach its target in one step.
JointSet ==
    { VelocityMotorJoint(1000), PositionMotorJoint(ScalarMax), PrismaticMotorJoint(ScalarMax) }
        \cup { VelocityMotorJoint(k) : k \in {1, 2} }
        \cup { PositionMotorJoint(1) }
        \cup { PrismaticMotorJoint(k) : k \in {0, 1} }

(***************************************************************************)
(* The solve of a joint axis: the motor, when enabled, then the limits.    *)
(***************************************************************************)
\* The relative velocity the motor drives the axis to: the target velocity
\* of an acceleration-based motor, the velocity that closes the position
\* error of a spring-damper motor.
motor_target(j) ==
    IF j.motor.motor_model = "AccelerationBased"
    THEN j.motor.target_velocity
    ELSE j.motor.target_position - j.x

\* The clamp of the accumulated motor impulse to +-max_force.
motor_clamp_unlimited(impulse, max_force) == impulse
motor_clamp(impulse, max_force) == Clamp(impulse, -max_force, max_force)

\* Whether the motor takes part in the solve.
motor_skipped_never(motor) == FALSE
motor_skipped(motor) == ~motor.enabled

\* One solve of the motor on state s = [v, motor, limit, clamped]: v the
\* relative velocity, motor and limit the impulses accumulated in the step.
motor_solve(j, s) ==
    IF motor_skipped(j.motor) THEN s
    ELSE LET wanted == s.motor + (motor_target(j) - s.v)
             total == motor_clamp(wanted, j.motor.max_force)
         IN [s EXCEPT !.v = @ + (total - s.motor), !.motor = total,
                      !.clamped = @ \/ total # wanted]

\* One solve of the limits: the velocity is brought into the range that
\* keeps the position within the limits at the end of the step.
limit_solve(j, s) ==
    IF j.limits = None THEN s
    ELSE LET lo == j.limits[1][1] - j.x
             hi == j.limits[1][2] - j.x
             v == Clamp(s.v, lo, hi)
         IN [s EXCEPT !.v = v, !.limit = @ + (v - s.v)]

RECURSIVE joint_iterations(_, _, _)
joint_iterations(j, s, k) ==
    IF k = 0 THEN s
    ELSE joint_iterations(j, limit_solve(j, motor_solve(j, s)), k - 1)

\* The warm start of the motor: the impulse accumulated in the previous
\* step is applied again, unless the motor is skipped.
motor_warm_start(j, s) ==
    IF motor_skipped(j.motor) THEN s
    ELSE [s EXCEPT !.v = @ + j.motor_impulse, !.motor = j.motor_impulse]

\* One step of the joint: gravity, warm start, the solve iterations and the
\* integration of the position.
joint_step(j) ==
    LET s0 == [v |-> j.v + j.gravity, motor |-> 0, limit |-> 0, clamped |-> FALSE]
        s == joint_iterations(j, motor_warm_start(j, s0), SolveIterations)
    IN [j EXCEPT !.v = s.v, !.x = @ + s.v, !.motor_impulse = s.motor,
                 !.steps = @ + 1,
                 !.last = [op |-> "solve", motor |-> s.motor, limit |-> s.limit,
                           clamped |-> s.clamped]]

(***************************************************************************)
(* control_motors: the keys of the example.                                *)
(***************************************************************************)
\* Arrow Up/Down, A/D and W/S: the target of the motor of the joint moves
\* by one unit.
adjust_target(j, d) ==
    IF j.name = "VelocityMotorJoint"
    THEN [j EXCEPT !.motor.target_velocity = @ + d]
    ELSE [j EXCEPT !.motor.target_position = @ + d]

\* Space: toggle the motor on/off.
toggle_enabled(j) == [j EXCEPT !.motor.enabled = ~@]

JointUnchanged == UNCHANGED <<bodies, inertias, manifolds, config, constraints, phase, iter, step, passes, last, tasks, start, shadow, query>>

InitJoint ==
    /\ SolverIdle
    /\ query = NoQuery
    /\ joint \in JointSet

JointSolve ==
    /\ joint.steps < MaxSteps + 1
    /\ joint' = joint_step(joint)
    /\ JointUnchanged

AdjustTarget ==
    /\ joint.presses < MaxPresses
    /\ \E d \in {-1, 1} :
          joint' = [adjust_target(joint, d) EXCEPT
                      !.presses = @ + 1, !.last.op = "adjust"]
    /\ JointUnchanged

ToggleMotors ==
    /\ joint' = [toggle_enabled(joint) EXCEPT !.last.op = "toggle"]
    /\ JointUnchanged

NextJoint == JointSolve \/ AdjustTarget \/ ToggleMotors

SpecJoint == InitJoint /\ [][NextJoint]_vars

(***************************************************************************)
(* Properties of the motorized joints.                                     *)
(***************************************************************************)
\* The relative velocity after a step in which only the non-motor
\* constraints of the joint act: gravity, then the limits.
non_motor_velocity(j) ==
    IF j.limits = None THEN j.v + j.gravity
    ELSE Clamp(j.v + j.gravity, j.limits[1][1] - j.x, j.limits[1][2] - j.x)

\* The position of the joint is within its limits.
WithinLimits(j) == j.limits # None => (j.limits[1][1] <= j.x /\ j.x <= j.limits[1][2])

\* C19: a solve step made while the motor is disabled applies no motor
\* impulse: velocity and position change as gravity and the limits alone
\* change them, whatever the motor's target, cap and earlier impulses, and
\* the limits are still enforced.
C19_DisabledMotorIdle_Step ==
    (~joint.motor.enabled /\ joint'.steps = joint.steps + 1) =>
        /\ joint'.last.motor = 0
        /\ joint'.v = non_motor_velocity(joint)
        /\ joint'.x = joint.x + non_motor_velocity(joint)
        /\ WithinLimits(joint')
C19_DisabledMotorIdle == [][C19_DisabledMotorIdle_Step]_vars

\* The motor, whose cap is positive, is disabled, and in the last step the
\* limit has stopped the slider while the motor has applied nothing.
C19_Witness ==
    /\ joint.last.op = "solve"
    /\ ~joint.motor.enabled
    /\ joint.motor.max_force > 0
    /\ joint.last.limit # 0
    /\ joint.last.motor = 0

\* C20: the impulse the motor has applied in a step is within +-max_force;
\* with the sentinel Scalar::MAX the clamp never changes the impulse; and
\* the limits hold after every step, whatever the cap of the motor.
C20_MotorImpulseCapped ==
    /\ Abs(joint.last.motor) <= joint.motor.max_force
    /\ joint.motor.max_force = ScalarMax => ~joint.last.clamped
    /\ WithinLimits(joint)

\* An enabled motor has been clamped at its cap in a step in which the
\* limit has applied a larger impulse.
C20_Witness ==
    /\ joint.last.op = "solve"
    /\ joint.motor.enabled
    /\ joint.last.clamped
    /\ Abs(joint.last.motor) = joint.motor.max_force
    /\ Abs(joint.last.limit) > joint.motor.max_force

(***************************************************************************)
(* The calls on one constraint among three bodies: warm_start, solve and   *)
(* apply_restitution in any order and with any arguments, and the remap of *)
(* the constraint's body entities when its owner relocates the bodies.     *)
(***************************************************************************)
\* EntityMapper: the image of every body entity; the first is the identity.
MapperSet == { <<1, 2, 3>>, <<2, 1, 3>>, <<2, 3, 1>>, <<1, 3, 2>> }
get_mapped(entity_mapper, entity) == entity_mapper[entity]

\* <ContactConstraint as MapEntities>::map_entities.
map_entities_first_twice(c, entity_mapper) ==
    [c EXCEPT !.body1 = get_mapped(entity_mapper, c.body1),
              !.body2 = get_mapped(entity_mapper, c.body1)]
map_entities(c, entity_mapper) ==
    [c EXCEPT !.body1 = get_mapped(entity_mapper, c.body1),
              !.body2 = get_mapped(entity_mapper, c.body2)]

\* The owner's collection after its elements moved to their images.
relocate(collection, entity_mapper) ==
    [e \in DOMAIN collection |->
        collection[CHOOSE d \in DOMAIN collection : get_mapped(entity_mapper, d) = e]]

FramePointSeqs ==
    { <<MPoints[1]>>, <<MPoints[2]>>, <<MPoints[4], MPoints[1]>>, <<MPoints[2], MPoints[4]>> }

InitFrame ==
    /\ \E ip \in InertiaPairs, b1 \in Body1Set,
          b2 \in { b \in Body2Set : b.angular_velocity = 1 } :
          /\ bodies = <<b1, b2, Body(<<2, 0>>, 1, <<0, 1>>, QuarterTurn)>>
          /\ inertias = <<ip[1], ip[2], Inertia(1, 1)>>
    /\ \E f \in { <<0, 0>>, <<2, 1>> }, ps \in FramePointSeqs :
          manifolds = <<Manifold(1, 2, <<0, 1>>, f, 1, ps)>>
    /\ config \in { cfg \in ConfigSet : cfg.use_bias /\ cfg.warm_start_coefficient = 1 }
    /\ constraints = <<build(manifolds[1], None, bodies[1], bodies[2])>>
    /\ phase = "Frame"
    /\ iter = 0
    /\ step = 0
    /\ passes = <<>>
    /\ last = [op |-> "none", trace |-> <<>>, arg |-> 0]
    /\ tasks = <<>>
    /\ start = <<>>
    /\ shadow = <<>>
    /\ query = NoQuery
    /\ joint = NoJoint

\* The call op with argument arg on the constraint and its two bodies.
FrameCall(op, arg) ==
    /\ step < MaxCalls
    /\ LET a == [bodies |-> bodies, constraints |-> constraints] IN
       \E ord \in points_iter(constraints[1]) :
          LET r == Call(op, arg, a, ord)
          IN /\ bodies' = AfterCall(op, a, r).bodies
             /\ constraints' = AfterCall(op, a, r).constraints
             /\ last' = [op |-> op, trace |-> r.trace, arg |-> arg]
    /\ step' = step + 1
    /\ passes' = Append(passes, op)
    /\ UNCHANGED <<inertias, manifolds, config, phase, iter, tasks, start, shadow, query, joint>>

FrameWarmStart == \E warm_start_coefficient \in { 0, 1, 2 } : FrameCall("warm_start", warm_start_coefficient)

FrameSolve == \E use_bias \in BOOLEAN : FrameCall("solve", use_bias)

FrameRestitution == FrameCall("apply_restitution", config.restitution_threshold)

\* The owner relocates the bodies and remaps the constraint.
FrameMapEntities ==
    /\ step < MaxCalls
    /\ \E entity_mapper \in MapperSet :
          /\ bodies' = relocate(bodies, entity_mapper)
          /\ inertias' = relocate(inertias, entity_mapper)
          /\ constraints' = [constraints EXCEPT ![1] = map_entities(@, entity_mapper)]
          /\ last' = [op |-> "map_entities", trace |-> <<>>, arg |-> entity_mapper]
    /\ step' = step + 1
    /\ passes' = Append(passes, "map_entities")
    /\ UNCHANGED <<manifolds, config, phase, iter, tasks, start, shadow, query, joint>>

NextFrame == FrameWarmStart \/ FrameSolve \/ FrameRestitution \/ FrameMapEntities

SpecFrame == InitFrame /\ [][NextFrame]_vars

(***************************************************************************)
(* Frame properties of the calls on one constraint (SpecFrame).            *)
(***************************************************************************)
IdentityMapper == <<1, 2, 3>>
\* The mapper that applies f, then g.
Compose(g, f) == [e \in DOMAIN f |-> g[f[e]]]

\* Some point of constraint c stores a non-zero impulse.
HasStoredImpulse(c) ==
    \E i \in DOMAIN c.points :
       \/ c.points[i].normal_part.impulse # 0
       \/ /\ c.points[i].tangent_part # None
          /\ c.points[i].tangent_part[1].impulse # 0

\* C21: map_entities replaces body1 and body2 by their images under the
\* entity mapper and leaves every other field of the constraint (dominance,
\* friction, restitution, normal, points with their accumulators, contact_id,
\* manifold_index) unchanged; the identity mapper leaves the constraint
\* unchanged, and remapping by f then by g equals remapping by g after f.
C21_RemapOnlyBodies_Step ==
    (last'.op = "map_entities" /\ step' = step + 1) =>
        LET f == last'.arg
            c == constraints[1]
            d == constraints'[1]
        IN /\ d.body1 = f[c.body1]
           /\ d.body2 = f[c.body2]
           /\ DOMAIN d = DOMAIN c
           /\ \A field \in DOMAIN c \ { "body1", "body2" } : d[field] = c[field]
           /\ (f = IdentityMapper => d = c)
           /\ \A g \in MapperSet : map_entities(d, g) = map_entities(c, Compose(g, f))
           /\ bodies'[d.body1] = bodies[c.body1]
           /\ bodies'[d.body2] = bodies[c.body2]
C21_RemapOnlyBodies == [][C21_RemapOnlyBodies_Step]_vars

\* C21 witness: a constraint that stores non-zero impulses was remapped by a
\* mapper that moves both of its bodies, to two different images.
C21_Witness ==
    /\ last.op = "map_entities"
    /\ last.arg = <<2, 3, 1>>
    /\ constraints[1].body1 = 2
    /\ constraints[1].body2 = 3
    /\ HasStoredImpulse(constraints[1])

\* The impulse point i of constraint c stores: its normal impulse along the
\* normal plus, when it has a tangent part, its tangent impulse along the tangent.
StoredImpulse(c, i) ==
    LET point == c.points[i]
        tangent == <<c.normal[2], -c.normal[1]>>
    IN IF point.tangent_part = None THEN VScale(point.normal_part.impulse, c.normal)
       ELSE VAdd(VScale(point.normal_part.impulse, c.normal),
                 VScale(point.tangent_part[1].impulse, tangent))

RECURSIVE StoredLinear(_, _)
\* The sum of the stored impulses of the first n points of c.
StoredLinear(c, n) ==
    IF n = 0 THEN ZeroVec ELSE VAdd(StoredLinear(c, n - 1), StoredImpulse(c, n))

RECURSIVE StoredAngular(_, _, _)
\* The sum of anchor x stored impulse over the first n points, anchors of body b.
StoredAngular(c, b, n) ==
    IF n = 0 THEN 0
    ELSE LET r == IF b = 1 THEN c.points[n].anchor1 ELSE c.points[n].anchor2
         IN StoredAngular(c, b, n - 1) + cross(r, StoredImpulse(c, n))

\* C22: warm_start changes no field of the constraint, and changes each
\* body's velocity by warm_start_coefficient times the stored impulses
\* (body1 subtracts, body2 adds; a point without tangent part counts with its
\* normal impulse only): with coefficient 0, or with all stored impulses 0,
\* the linear and angular velocities of both bodies stay as they were.
C22_WarmStartLinear_Step ==
    (last'.op = "warm_start" /\ step' = step + 1) =>
        LET k == last'.arg
            c == constraints[1]
            n == Len(c.points)
            a1 == bodies[c.body1]
            a2 == bodies[c.body2]
            d1 == bodies'[c.body1]
            d2 == bodies'[c.body2]
            m1 == effective_inv_mass(inertias[c.body1])
            m2 == effective_inv_mass(inertias[c.body2])
            i1 == effective_inv_angular_inertia(inertias[c.body1])
            i2 == effective_inv_angular_inertia(inertias[c.body2])
        IN /\ constraints' = constraints
           /\ d1.linear_velocity = VSub(a1.linear_velocity, VScale(k * m1, StoredLinear(c, n)))
           /\ d2.linear_velocity = VAdd(a2.linear_velocity, VScale(k * m2, StoredLinear(c, n)))
           /\ d1.angular_velocity = a1.angular_velocity - k * i1 * StoredAngular(c, 1, n)
           /\ d2.angular_velocity = a2.angular_velocity + k * i2 * StoredAngular(c, 2, n)
           /\ (k = 0 \/ ~HasStoredImpulse(c)) => bodies' = bodies
C22_WarmStartLinear == [][C22_WarmStartLinear_Step]_vars

\* C22 witness: warm_start with coefficient 2 has visited every point of a
\* constraint whose first point stores non-zero normal and tangent impulses,
\* whose stored impulses have a non-zero sum and a non-zero moment about the
\* second body, and whose second body has mass and angular inertia.
C22_Witness ==
    /\ last.op = "warm_start"
    /\ last.arg = 2
    /\ step = 1
    /\ LET c == constraints[1] IN
       /\ c.points[1].normal_part.impulse # 0
       /\ c.points[1].tangent_part # None
       /\ c.points[1].tangent_part[1].impulse # 0
       /\ StoredLinear(c, Len(c.points)) # ZeroVec
       /\ StoredAngular(c, 2, Len(c.points)) # 0
       /\ effective_inv_mass(inertias[c.body2]) # 0
       /\ effective_inv_angular_inertia(inertias[c.body2]) # 0
       /\ Len(last.trace) = Len(c.points)

\* The fields of a contact point that no solver call may change.
PointFrame(point) ==
    [anchor1 |-> point.anchor1, anchor2 |-> point.anchor2,
     normal_speed |-> point.normal_speed,
     initial_separation |-> point.initial_separation,
     effective_mass |-> point.normal_part.effective_mass,
     softness_bias |-> point.normal_part.softness_bias,
     tangent_effective_mass |-> IF point.tangent_part = None THEN None
                                ELSE Some(point.tangent_part[1].effective_mass)]

\* C23: warm_start, solve and apply_restitution change only the linear and
\* angular velocities of the two bodies passed in and (solve and
\* apply_restitution) the impulse accumulators of the constraint's points:
\* no body's delta_position or delta_rotation changes, a third body does not
\* change at all, the constraint keeps its bodies, normal, friction,
\* restitution, point count and order, anchors, initial_separation and
\* pre-solve normal_speed, and apply_restitution keeps every tangent part.
C23_SolverFrame_Step ==
    (last'.op \in { "warm_start", "solve", "apply_restitution" } /\ step' = step + 1) =>
        LET c == constraints[1]
            d == constraints'[1]
        IN /\ DOMAIN bodies' = DOMAIN bodies
           /\ \A b \in DOMAIN bodies :
                 /\ bodies'[b].delta_position = bodies[b].delta_position
                 /\ bodies'[b].delta_rotation = bodies[b].delta_rotation
                 /\ b \notin { c.body1, c.body2 } => bodies'[b] = bodies[b]
           /\ inertias' = inertias
           /\ Len(constraints') = Len(constraints)
           /\ DOMAIN d = DOMAIN c
           /\ \A field \in DOMAIN c \ { "points" } : d[field] = c[field]
           /\ Len(d.points) = Len(c.points)
           /\ \A i \in DOMAIN c.points : PointFrame(d.points[i]) = PointFrame(c.points[i])
           /\ (last'.op = "warm_start" => d = c)
           /\ (last'.op = "apply_restitution" =>
                 \A i \in DOMAIN c.points : d.points[i].tangent_part = c.points[i].tangent_part)
C23_SolverFrame == [][C23_SolverFrame_Step]_vars

\* C23 witness: apply_restitution has applied a non-zero impulse at a point
\* that keeps a non-zero tangent impulse, on bodies with a non-zero
\* delta_position and a turned delta_rotation, next to a third body.
C23_Witness ==
    /\ last.op = "apply_restitution"
    /\ \E e \in DOMAIN last.trace :
          /\ last.trace[e].impulse # ZeroVec
          /\ constraints[1].points[last.trace[e].point].tangent_part # None
          /\ constraints[1].points[last.trace[e].point].tangent_part[1].impulse # 0
    /\ bodies[constraints[1].body1].delta_position # ZeroVec
    /\ bodies[constraints[1].body2].delta_rotation # Identity
    /\ Len(bodies) = 3

====
